---- MODULE Spec2Model ----
(***************************************************************************)
(* A model of the SPS codec of Sparkle-Particle (src/sparkle/sps.py), the  *)
(* SNBT value grammar (src/sparkle/snbt.py) and the shape and animation    *)
(* containers they serialise.                                              *)
(*                                                                         *)
(* Numbers.  The spec's data model is decimal: a coordinate is a decimal  *)
(* number and the decoder accumulates the decimal deltas as written.  A    *)
(* number is modelled as an integer count of "fine" units: Unit fine units *)
(* are one unit of the last encoded decimal place, so the integer n stands *)
(* for n / (Unit * 10^Prec).  round(v, prec) is Round: the nearest         *)
(* multiple of Unit.  Inputs lie on multiples of Third (a third of a       *)
(* unit), so they can be off the decimal grid and rounding changes them.   *)
(* Arithmetic is exact decimal arithmetic: the error of binary floating    *)
(* point below the encoded precision is not represented.                   *)
(*                                                                         *)
(* Text.  A string is a sequence of one-character strings, a line is the   *)
(* sequence of its whitespace-separated tokens (what str.split() gives),   *)
(* a file is a sequence of lines.  Python's None is the empty sequence     *)
(* and a present value v is <<v>>.  Indices are the source's (0-based).    *)
(***************************************************************************)
EXTENDS Integers, Sequences, FiniteSets, TLC

\* ---- bounds of the model ----
Prec == 1
Third == 20
MaxPts == 7

\* ---- program constants ----
MinRun == 3
MaxBlock == 8

Unit == 3 * Third
Half == Unit \div 2

VARIABLES
    \* -- the point block round trip (_encode_pts, _decode_pts)
    pts,        \* input: the point list handed to _encode_pts
    pc,         \* position of the round trip: "call", "encode", "decode", "done"
    enc,        \* locals of _encode_pts
    lines,      \* the encoded lines handed to the decoder
    dec,        \* locals of _decode_pts
    \* -- save and load of a shape or an animation
    data,       \* the object handed to save: a ParticleShape or a ParticleAnimation
    spc,        \* position: "build", "save", "saved", "load", "split", "frames", "done", "error"
    todo,       \* save: the ticks of sorted(data.frames) still to encode
    prev,       \* save: the state returned by the last _encode_shape, or None
    buf,        \* save: buf
    saved,      \* history: per encoded frame its tick, body and state
    file,       \* the lines of the written file
    lframes,    \* load: frames, the (tick, lines) groups still to decode
    lstate,     \* load: state
    dstates,    \* history: per decoded frame its tick and state
    result,     \* what load returns, or None
    \* -- from_snbt on a bare token
    text,       \* _SNBTParser.text
    npc,        \* position: "parse", "scan", "resolved", "done", "error"
    npos,       \* _SNBTParser.pos
    nstart,     \* _parse_unquoted_value: start
    ntoken,     \* _parse_unquoted_value: token
    value,      \* what parse returns, or None
    \* -- to_snbt and from_snbt on a value
    obj,        \* the value given to to_snbt, or None where a text is given
    stext,      \* the SNBT text
    vpc,        \* position: "value", "text", "done", "error"
    vparsed,    \* what from_snbt returns, or None
    \* -- the operations of ParticleShape
    heap,       \* the list objects: heap[id] is the content of the list id
    objs,       \* the ParticleShape objects the caller holds, in order of creation
    call,       \* the last call: its name, receiver, argument and what it returned
    \* -- the functions written by save_animation, run by the game
    files,      \* the .mcfunction files: main, stop, one frame and one particles file per tick
    apc,        \* position: "compile", "ready", "playing", "stopped"
    anchor,     \* the number of marker entities that carry the tag
    sched,      \* the scheduled functions: pairs of a frame's tick and the time it is due
    now,        \* the game time in ticks
    played      \* history: the particle functions executed, each with its time

ptsVars == <<pts, pc, enc, lines, dec>>
spsVars == <<data, spc, todo, prev, buf, saved, file, lframes, lstate, dstates, result>>
nbtVars == <<text, npc, npos, nstart, ntoken, value>>
valVars == <<obj, stext, vpc, vparsed>>
shpVars == <<heap, objs, call>>
animVars == <<files, apc, anchor, sched, now, played>>
notPtsVars == <<spsVars, nbtVars, valVars, shpVars, animVars>>
notSpsVars == <<ptsVars, nbtVars, valVars, shpVars, animVars>>
notNbtVars == <<ptsVars, spsVars, valVars, shpVars, animVars>>
notValVars == <<ptsVars, spsVars, nbtVars, shpVars, animVars>>
notShpVars == <<ptsVars, spsVars, nbtVars, valVars, animVars>>
notAnimVars == <<ptsVars, spsVars, nbtVars, valVars, shpVars>>
vars == <<ptsVars, spsVars, nbtVars, valVars, shpVars, animVars>>

NoneV == <<>>
Some(v) == <<v>>
IsNone(o) == o = <<>>

Min(a, b) == IF a < b THEN a ELSE b
Abs(a) == IF a < 0 THEN -a ELSE a

RECURSIVE Pow10(_)
Pow10(k) == IF k <= 0 THEN 1 ELSE 10 * Pow10(k - 1)

\* ---------------------------------------------------------------- evaluation

\* v bound once: F(v)
Let(v, F(_)) == CHOOSE r \in {F(y) : y \in {v}} : TRUE

\* F(a, b) and F(a, b, c) with every argument evaluated once, before the call
Strict2(a, b, F(_, _)) == CHOOSE r \in {F(x[1], x[2]) : x \in {<<a, b>>}} : TRUE
Strict3(a, b, c, F(_, _, _)) == CHOOSE r \in {F(x[1], x[2], x[3]) : x \in {<<a, b, c>>}} : TRUE

\* ---------------------------------------------------------------- numbers

\* mutant: truncates instead of rounding to the nearest
Round_Floor(v) == (v \div Unit) * Unit

\* round(v, prec): the nearest multiple of Unit
Round(v) == ((v + Half) \div Unit) * Unit

\* ---------------------------------------------------------------- text

DigitChars == <<"0", "1", "2", "3", "4", "5", "6", "7", "8", "9">>

IsDigit(c) == \E k \in 1..10 : DigitChars[k] = c

DigitVal(c) == (CHOOSE k \in 1..10 : DigitChars[k] = c) - 1

\* str(n) for n >= 0
RECURSIVE NatStr(_)
NatStr(n) ==
    IF n < 10 THEN <<DigitChars[n + 1]>>
    ELSE NatStr(n \div 10) \o <<DigitChars[(n % 10) + 1]>>

\* str(n)
IntStr(n) == IF n < 0 THEN <<"-">> \o NatStr(-n) ELSE NatStr(n)

\* n written with exactly w digits
RECURSIVE FixedDigits(_, _)
FixedDigits(n, w) ==
    IF w <= 0 THEN <<>>
    ELSE FixedDigits(n \div 10, w - 1) \o <<DigitChars[(n % 10) + 1]>>

\* s.rstrip(c)
RECURSIVE RStrip(_, _)
RStrip(s, c) ==
    IF Len(s) > 0 /\ s[Len(s)] = c THEN RStrip(SubSeq(s, 1, Len(s) - 1), c) ELSE s

StartsWith(s, p) == Len(s) >= Len(p) /\ SubSeq(s, 1, Len(p)) = p

Contains(s, c) == \E k \in 1..Len(s) : s[k] = c

\* f"{v:.{prec}f}" of an already rounded v
FixedStr(v) ==
    LET r == v \div Unit
        a == Abs(r)
    IN  (IF r < 0 THEN <<"-">> ELSE <<>>)
        \o NatStr(a \div Pow10(Prec))
        \o (IF Prec > 0 THEN <<".">> \o FixedDigits(a % Pow10(Prec), Prec) ELSE <<>>)

\* mutant: s[2:] also drops the sign of a negative fraction
_fmt_DropsSign(v0) ==
    LET v == Round(v0)
        s == FixedStr(v)
        s1 == IF Contains(s, ".") THEN RStrip(RStrip(s, "0"), ".") ELSE s
    IN  IF v = 0 THEN <<"0">>
        ELSE IF StartsWith(s1, <<"0", ".">>) THEN Tail(s1)
        ELSE IF StartsWith(s1, <<"-", "0", ".">>) THEN SubSeq(s1, 3, Len(s1))
        ELSE s1

_fmt(v0) ==
    LET v == Round(v0)
        s == FixedStr(v)
        s1 == IF Contains(s, ".") THEN RStrip(RStrip(s, "0"), ".") ELSE s
    IN  IF v = 0 THEN <<"0">>
        ELSE IF StartsWith(s1, <<"0", ".">>) THEN Tail(s1)
        ELSE IF StartsWith(s1, <<"-", "0", ".">>) THEN <<"-">> \o SubSeq(s1, 3, Len(s1))
        ELSE s1

\* the tokens of f"{_fmt(p[0])} {_fmt(p[1])} {_fmt(p[2])}"
_fmt3(p) == <<_fmt(p[1]), _fmt(p[2]), _fmt(p[3])>>

RECURSIVE FmtExcept(_, _, _)
FmtExcept(p, i, drop) ==
    IF i > 2 THEN <<>>
    ELSE (IF i # drop THEN <<_fmt(p[i + 1])>> ELSE <<>>) \o FmtExcept(p, i + 1, drop)

_fmtD(p, drop) ==
    IF IsNone(drop) THEN _fmt3(p) ELSE FmtExcept(p, 0, drop[1])

_round3(p) == <<Round(p[1]), Round(p[2]), Round(p[3])>>

\* ---- parsing numbers (float(), int()) ----

AllDigits(s) == \A k \in 1..Len(s) : IsDigit(s[k])

RECURSIVE DigitsVal(_)
DigitsVal(s) ==
    IF Len(s) = 0 THEN 0
    ELSE 10 * DigitsVal(SubSeq(s, 1, Len(s) - 1)) + DigitVal(s[Len(s)])

StripSign(s) ==
    IF Len(s) > 0 /\ s[1] \in {"-", "+"} THEN Tail(s) ELSE s

SignOf(s) == IF Len(s) > 0 /\ s[1] = "-" THEN -1 ELSE 1

DotAt(s) == IF Contains(s, ".") THEN CHOOSE k \in 1..Len(s) : s[k] = "." /\ \A m \in 1..(k - 1) : s[m] # "." ELSE 0

\* the fine-unit value of the decimal ip.fp
DecimalVal(ip, fp) ==
    DigitsVal(ip) * Pow10(Prec) * Unit
    + (IF Len(fp) <= Prec THEN DigitsVal(fp) * Pow10(Prec - Len(fp)) * Unit
       ELSE (DigitsVal(fp) * Unit) \div Pow10(Len(fp) - Prec))

\* float(s) for the plain decimal forms [sign] digits [. digits] and [sign] . digits;
\* NoneV stands for ValueError (exponent forms, inf and nan are not written
\* by the encoder and are outside the tokens the model reads)
PyFloat(s) ==
    LET t == StripSign(s)
        k == DotAt(t)
        ip == IF k = 0 THEN t ELSE SubSeq(t, 1, k - 1)
        fp == IF k = 0 THEN <<>> ELSE SubSeq(t, k + 1, Len(t))
    IN  IF Len(ip) + Len(fp) > 0 /\ AllDigits(ip) /\ AllDigits(fp)
        THEN Some(SignOf(s) * DecimalVal(ip, fp))
        ELSE NoneV

\* int(s) for [sign] digits; NoneV stands for ValueError
PyInt(s) ==
    LET t == StripSign(s)
    IN  IF Len(t) > 0 /\ AllDigits(t) THEN Some(SignOf(s) * DigitsVal(t)) ELSE NoneV

\* ---------------------------------------------------------------- _plan_drops

\* the first index j >= i with j = n or deltas[j][axis] # 0 (the inner while)
RECURSIVE ZeroRunEnd(_, _, _)
ZeroRunEnd(deltas, axis, j) ==
    IF j < Len(deltas) /\ deltas[j + 1][axis + 1] = 0
    THEN ZeroRunEnd(deltas, axis, j + 1)
    ELSE j

\* the zero runs of one axis that are at least MinRun long, in index order
RECURSIVE AxisRuns(_, _, _)
AxisRuns(deltas, axis, i) ==
    IF i >= Len(deltas) THEN <<>>
    ELSE IF deltas[i + 1][axis + 1] = 0
         THEN LET j == ZeroRunEnd(deltas, axis, i)
              IN  (IF j - i >= MinRun
                   THEN <<[start |-> i, end |-> j, axis |-> axis, len |-> j - i]>>
                   ELSE <<>>)
                  \o AxisRuns(deltas, axis, j)
         ELSE AxisRuns(deltas, axis, i + 1)

\* r placed behind every run at least as long: a stable descending sort
RECURSIVE InsertRun(_, _)
InsertRun(sorted, r) ==
    IF Len(sorted) = 0 THEN <<r>>
    ELSE IF Head(sorted).len >= r.len THEN <<Head(sorted)>> \o InsertRun(Tail(sorted), r)
    ELSE <<r>> \o sorted

\* runs.sort(key=lambda r: r[3], reverse=True)
RECURSIVE SortRuns(_)
SortRuns(runs) ==
    IF Len(runs) = 0 THEN <<>>
    ELSE Strict2(SortRuns(SubSeq(runs, 1, Len(runs) - 1)), runs[Len(runs)], InsertRun)

\* mutant: only the first delta of the run is tested
RunIsFree_Start(drop_map, r) == IsNone(drop_map[r.start + 1])

RunIsFree(drop_map, r) ==
    \A k \in r.start..(r.end - 1) : IsNone(drop_map[k + 1])

\* the greedy assignment of the sorted runs
RECURSIVE AssignRuns(_, _)
AssignRuns(drop_map, runs) ==
    IF Len(runs) = 0 THEN drop_map
    ELSE LET r == Head(runs)
             m == IF RunIsFree(drop_map, r)
                  THEN [k \in 1..Len(drop_map) |->
                           IF k - 1 >= r.start /\ k - 1 < r.end THEN Some(r.axis)
                           ELSE drop_map[k]]
                  ELSE drop_map
         IN  Strict2(m, Tail(runs), AssignRuns)

CandidateRuns(deltas) ==
    AxisRuns(deltas, 0, 0) \o AxisRuns(deltas, 1, 0) \o AxisRuns(deltas, 2, 0)

_plan_drops(deltas) ==
    IF Len(deltas) = 0 THEN <<>>
    ELSE Strict2([k \in 1..Len(deltas) |-> NoneV], SortRuns(CandidateRuns(deltas)), AssignRuns)

\* ---------------------------------------------------------------- _encode_pts

Sub3(p, q) == <<p[1] - q[1], p[2] - q[2], p[3] - q[3]>>
Add3(p, q) == <<p[1] + q[1], p[2] + q[2], p[3] + q[3]>>

\* the consecutive differences of the rounded points
Deltas(rpts) == [k \in 1..(Len(rpts) - 1) |-> Sub3(rpts[k + 1], rpts[k])]

\* the decoder's accumulation, simulated by the encoder
RECURSIVE Accumulate(_, _, _)
Accumulate(acc, deltas, k) ==
    IF k > Len(deltas) THEN <<>>
    ELSE LET a == Add3(acc, deltas[k])
         IN  <<a>> \o Accumulate(a, deltas, k + 1)

DecPts(rpts, deltas) == <<rpts[1]>> \o Accumulate(rpts[1], deltas, 1)

\* mutant: only the first component is compared
SamePoint_XOnly(a, b) == Round(a[1]) = Round(b[1])

SamePoint(a, b) ==
    /\ Round(a[1]) = Round(b[1])
    /\ Round(a[2]) = Round(b[2])
    /\ Round(a[3]) = Round(b[3])

\* one replay of the k-delta block at j from the accumulator, compared with the
\* simulated points behind pos: the accumulator after it, or NoneV at a mismatch
RECURSIVE ReplayBlock(_, _, _, _, _, _)
ReplayBlock(e, j, k, pos, jj, test_acc) ==
    IF jj >= k THEN Some(test_acc)
    ELSE LET a == Add3(test_acc, e.deltas[j + jj + 1])
         IN  IF SamePoint(a, e.dec_pts[pos + jj + 2])
             THEN ReplayBlock(e, j, k, pos, jj + 1, a)
             ELSE NoneV

\* the number of repeats of the block found from pos on (the while pos + k <= seg_end)
RECURSIVE CountRepeats(_, _, _, _, _)
CountRepeats(e, j, k, pos, sim_acc) ==
    IF pos + k <= e.seg_end
    THEN LET t == ReplayBlock(e, j, k, pos, 0, sim_acc)
         IN  IF IsNone(t) THEN 0
             ELSE 1 + CountRepeats(e, j, k, pos + k, t[1])
    ELSE 0

\* mutant: the simulation starts at the block's first point, not behind the block
Repeats_FromBlockStart(e, j, k) == CountRepeats(e, j, k, j + k, e.dec_pts[j + 1])

Repeats(e, j, k) == CountRepeats(e, j, k, j + k, e.dec_pts[j + k + 1])

\* the for k in range(1, max_k + 1) loop: the best (k, n) so far
RECURSIVE BestBlock(_, _, _, _, _)
BestBlock(e, j, k, max_k, best) ==
    IF k > max_k THEN best
    ELSE LET n == Repeats(e, j, k)
         IN  BestBlock(e, j, k + 1, max_k,
                       IF n > 0 /\ n * k > best.n * best.k THEN [k |-> k, n |-> n] ELSE best)

\* mutant: only blocks of one delta are tried
MaxK_One(seg_end, j) == Min((seg_end - j) \div 2, 1)

MaxK(seg_end, j) == Min((seg_end - j) \div 2, MaxBlock)

\* mutant: the segment runs to the last delta
SegEnd_ToLast(drop_map, current_drop, seg_end) == Len(drop_map)

RECURSIVE SegEnd(_, _, _)
SegEnd(drop_map, current_drop, seg_end) ==
    IF seg_end < Len(drop_map) /\ drop_map[seg_end + 1] = current_drop
    THEN SegEnd(drop_map, current_drop, seg_end + 1)
    ELSE seg_end

HeaderLine(tag, p) == <<tag>> \o _fmt3(p)
\* mutant: the directive names the axis by its letter
DirectiveLine_Letter(axis) == <<(<<"?">>), (<<(<<"x", "y", "z">>)[axis + 1]>>)>>

DirectiveLine(axis) == <<<<"?">>, IntStr(axis)>>
RunLine(k, n) == <<<<"=">>, IntStr(k), IntStr(n)>>

RECURSIVE BlockLines(_, _, _, _)
BlockLines(deltas, j, k, drop) ==
    IF k = 0 THEN <<>>
    ELSE <<_fmtD(deltas[j + 1], drop)>> \o BlockLines(deltas, j + 1, k - 1, drop)

EncIdle ==
    [pc |-> "idle", rpts |-> <<>>, deltas |-> <<>>, dec_pts |-> <<>>, drop_map |-> <<>>,
     current_drop |-> NoneV, i |-> 0, j |-> 0, seg_end |-> 0, out |-> <<>>]

\* lines 127-157: up to the first test of the segment loop
EncEnter(points, tag) ==
    IF Len(points) = 0 THEN [EncIdle EXCEPT !.pc = "ret"]
    ELSE Let([k \in 1..Len(points) |-> _round3(points[k])], LAMBDA rpts :
         Let(Deltas(rpts), LAMBDA deltas :
             IF Len(rpts) < 2
             THEN [EncIdle EXCEPT !.pc = "ret", !.rpts = rpts,
                                  !.out = <<HeaderLine(tag, rpts[1])>>]
             ELSE [EncIdle EXCEPT !.pc = "seg", !.rpts = rpts, !.deltas = deltas,
                                  !.dec_pts = DecPts(rpts, deltas),
                                  !.drop_map = _plan_drops(deltas),
                                  !.out = <<HeaderLine(tag, rpts[1])>>]))

\* lines 158-171: one test of the segment loop and the head of its body
EncSegment(e) ==
    IF e.i < Len(e.deltas)
    THEN LET switch == e.drop_map[e.i + 1] # e.current_drop
             cd == IF switch THEN e.drop_map[e.i + 1] ELSE e.current_drop
         IN  [e EXCEPT !.pc = "run",
                       !.current_drop = cd,
                       !.out = IF switch /\ ~IsNone(cd)
                               THEN Append(e.out, DirectiveLine(cd[1])) ELSE e.out,
                       !.seg_end = SegEnd(e.drop_map, cd, e.i + 1),
                       !.j = e.i]
    ELSE [e EXCEPT !.pc = "ret"]

\* lines 172-213: one test of the run-length loop and its body
EncRun(e) ==
    IF e.j < e.seg_end
    THEN LET best == BestBlock(e, e.j, 1, MaxK(e.seg_end, e.j), [k |-> 0, n |-> 0])
         IN  IF best.n > 0
             THEN [e EXCEPT !.out = e.out \o BlockLines(e.deltas, e.j, best.k, e.current_drop)
                                    \o <<RunLine(best.k, best.n)>>,
                            !.j = e.j + best.k + best.n * best.k]
             ELSE [e EXCEPT !.out = Append(e.out, _fmtD(e.deltas[e.j + 1], e.current_drop)),
                            !.j = e.j + 1]
    ELSE [e EXCEPT !.pc = "seg", !.i = e.seg_end]

EncStep(e) == IF e.pc = "seg" THEN EncSegment(e) ELSE EncRun(e)

\* the loops run to their end (a value bound through a one-element set, as n is
\* here, is evaluated once however often it is used)
RECURSIVE EncFinish(_)
EncFinish(e) ==
    IF e.pc = "ret" THEN e
    ELSE CHOOSE r \in {EncFinish(n) : n \in {EncStep(e)}} : TRUE

\* _encode_pts(pts, tag, prec): the lines it returns
_encode_pts(points, tag) ==
    (CHOOSE r \in {EncFinish(e) : e \in {EncEnter(points, tag)}} : TRUE).out

\* ---------------------------------------------------------------- _decode_pts

_is_data_line(line) ==
    LET c == line[1][1]
    IN  IsDigit(c) \/ c = "-" \/ c = "."

\* [float(v) for v in tokens]: NoneV stands for ValueError
RECURSIVE FloatList(_)
FloatList(tokens) ==
    IF Len(tokens) = 0 THEN Some(<<>>)
    ELSE Strict2(PyFloat(Head(tokens)), FloatList(Tail(tokens)),
                 LAMBDA v, rest :
                     IF IsNone(v) \/ IsNone(rest) THEN NoneV ELSE Some(<<v[1]>> \o rest[1]))

_parse_vals(tokens) == FloatList(tokens)

\* mutant: the value is appended instead of inserted
ListInsert_AtEnd(l, i, x) == Append(l, x)

\* list.insert(i, x)
ListInsert(l, i, x) ==
    LET at == IF i < 0 THEN (IF i + Len(l) < 0 THEN 0 ELSE i + Len(l)) ELSE Min(i, Len(l))
    IN  SubSeq(l, 1, at) \o <<x>> \o SubSeq(l, at + 1, Len(l))

\* l[-k:]
LastK(l, k) ==
    IF k > 0 THEN SubSeq(l, Len(l) - Min(k, Len(l)) + 1, Len(l))
    ELSE SubSeq(l, Min(-k, Len(l)) + 1, Len(l))

\* (prev[0] + d[0], prev[1] + d[1], prev[2] + d[2]); NoneV stands for IndexError
NextPoint(last, d) ==
    IF Len(last) >= 3 /\ Len(d) >= 3 THEN Some(Add3(last, d)) ELSE NoneV

\* for d in pattern: pts.append(pts[-1] + d); NoneV stands for IndexError
RECURSIVE ReplayPattern(_, _, _)
ReplayPattern(points, pattern, k) ==
    IF k > Len(pattern) THEN Some(points)
    ELSE LET q == NextPoint(points[Len(points)], pattern[k])
         IN  IF IsNone(q) THEN NoneV
             ELSE Strict3(Append(points, q[1]), pattern, k + 1, ReplayPattern)

\* for _ in range(n): replay the pattern
RECURSIVE ReplayTimes(_, _, _)
ReplayTimes(points, pattern, n) ==
    IF n <= 0 THEN Some(points)
    ELSE LET r == ReplayPattern(points, pattern, 1)
         IN  IF IsNone(r) THEN NoneV ELSE Strict3(r[1], pattern, n - 1, ReplayTimes)

DecIdle == [pc |-> "idle", pts |-> <<>>, recent_deltas |-> <<>>, drop |-> NoneV, pos |-> 0]

\* lines 317-323: the header line
DecEnter(ls, pos) ==
    LET line == ls[pos + 1]
        vals == _parse_vals(Tail(line))
    IN  IF Len(line) < 2 \/ IsNone(vals) THEN [DecIdle EXCEPT !.pc = "err", !.pos = pos]
        ELSE [DecIdle EXCEPT !.pc = "run", !.pts = <<vals[1]>>, !.pos = pos + 1]

\* lines 329-332: ? axis
DecDirective(line, d) ==
    LET a == PyInt(line[2])
    IN  IF IsNone(a) THEN [d EXCEPT !.pc = "err"]
        ELSE [d EXCEPT !.drop = a, !.pos = d.pos + 1]

\* lines 335-345: = k n
DecRun(line, d) ==
    IF Len(line) < 3 THEN [d EXCEPT !.pc = "err"]
    ELSE LET k == PyInt(line[2])
             n == PyInt(line[3])
         IN  IF IsNone(k) \/ IsNone(n) THEN [d EXCEPT !.pc = "err"]
             ELSE LET r == Strict3(d.pts, LastK(d.recent_deltas, k[1]), n[1], ReplayTimes)
                  IN  IF IsNone(r) THEN [d EXCEPT !.pc = "err"]
                      ELSE [d EXCEPT !.pts = r[1], !.pos = d.pos + 1]

\* mutant: the delta line is not consumed
DecDelta_Stay(line, d) == d

\* lines 350-359: a delta line
DecDelta(line, d) ==
    Let(FloatList(line), LAMBDA parsed :
        IF IsNone(parsed) THEN [d EXCEPT !.pc = "err"]
        ELSE Let(IF ~IsNone(d.drop) /\ Len(parsed[1]) = 2
                 THEN ListInsert(parsed[1], d.drop[1], 0)
                 ELSE parsed[1], LAMBDA vals :
             Let(NextPoint(d.pts[Len(d.pts)], vals), LAMBDA q :
                 IF IsNone(q) THEN [d EXCEPT !.pc = "err"]
                 ELSE [d EXCEPT !.pts = Append(d.pts, q[1]),
                                !.recent_deltas = Append(d.recent_deltas, vals),
                                !.pos = d.pos + 1])))

\* lines 325-359: one test of the while loop and its body
DecStep(ls, d) ==
    IF d.pos >= Len(ls) THEN [d EXCEPT !.pc = "ret"]
    ELSE LET line == ls[d.pos + 1]
         IN  IF line[1] = <<"?">> /\ Len(line) >= 2 THEN DecDirective(line, d)
             ELSE IF line[1][1] = "=" THEN DecRun(line, d)
             ELSE IF ~_is_data_line(line) THEN [d EXCEPT !.pc = "ret"]
             ELSE DecDelta(line, d)

RECURSIVE DecFinish(_, _)
DecFinish(ls, d) ==
    IF d.pc # "run" THEN d
    ELSE CHOOSE r \in {DecFinish(ls, n) : n \in {DecStep(ls, d)}} : TRUE

\* mutant: the line that ends the block is consumed with it
_decode_pts_PastEnd(ls, pos) ==
    Let(CHOOSE r \in {DecFinish(ls, d) : d \in {DecEnter(ls, pos)}} : TRUE,
        LAMBDA r : IF r.pc = "ret" /\ r.pos < Len(ls) THEN [r EXCEPT !.pos = r.pos + 1] ELSE r)

\* _decode_pts(lines, pos): its locals at the return (pts, pos), or pc = "err"
_decode_pts(ls, pos) ==
    CHOOSE r \in {DecFinish(ls, d) : d \in {DecEnter(ls, pos)}} : TRUE

\* ---------------------------------------------------------------- snbt: bare tokens

LowerChars ==
    <<"a", "b", "c", "d", "e", "f", "g", "h", "i", "j", "k", "l", "m",
      "n", "o", "p", "q", "r", "s", "t", "u", "v", "w", "x", "y", "z">>

UpperChars ==
    <<"A", "B", "C", "D", "E", "F", "G", "H", "I", "J", "K", "L", "M",
      "N", "O", "P", "Q", "R", "S", "T", "U", "V", "W", "X", "Y", "Z">>

Range(s) == {s[k] : k \in 1..Len(s)}

_UNQUOTED_CHARS ==
    Range(LowerChars) \cup Range(UpperChars) \cup Range(DigitChars) \cup {".", "_", "+", "-"}

_FLOAT_SUFFIX == {"f", "F", "d", "D"}

\* mutant: b and B are not integer suffixes
_INT_SUFFIX_NoByte == {"s", "S", "i", "I", "l", "L"}

_INT_SUFFIX == {"b", "B", "s", "S", "i", "I", "l", "L"}
_TWO_CHAR_FIRST == {"s", "S", "u", "U"}
_TWO_CHAR_SECOND == {"b", "B", "s", "S", "i", "I", "l", "L"}

\* str.lower() of one character
Lower(c) ==
    IF c \in Range(UpperChars) THEN LowerChars[CHOOSE k \in 1..26 : UpperChars[k] = c] ELSE c

LowerStr(s) == [k \in 1..Len(s) |-> Lower(s[k])]

\* token.replace('_', '')
RemoveUnderscores(s) == SelectSeq(s, LAMBDA c : c # "_")

\* the value of a digit of base 2, 10 or 16, or -1
BaseDigit(c, base) ==
    LET v == IF IsDigit(c) THEN DigitVal(c)
             ELSE IF Lower(c) \in {"a", "b", "c", "d", "e", "f"}
             THEN 9 + (CHOOSE k \in 1..6 : LowerChars[k] = Lower(c))
             ELSE -1
    IN  IF v < base THEN v ELSE -1

RECURSIVE BaseDigitsVal(_, _)
BaseDigitsVal(s, base) ==
    IF Len(s) = 0 THEN 0
    ELSE base * BaseDigitsVal(SubSeq(s, 1, Len(s) - 1), base) + BaseDigit(s[Len(s)], base)

\* int(s, base) for base 2 and 16: [sign] [0b | 0x] digits; NoneV stands for ValueError
PyIntBase(s, base) ==
    LET t == StripSign(s)
        mark == IF base = 16 THEN "x" ELSE "b"
        ds == IF Len(t) >= 2 /\ t[1] = "0" /\ Lower(t[2]) = mark
              THEN SubSeq(t, 3, Len(t)) ELSE t
    IN  IF Len(ds) > 0 /\ \A k \in 1..Len(ds) : BaseDigit(ds[k], base) >= 0
        THEN Some(SignOf(s) * BaseDigitsVal(ds, base))
        ELSE NoneV

\* _SNBTParser._try_int: None is NoneV
_try_int(s) ==
    IF Len(s) = 0 THEN NoneV
    ELSE LET sign == SignOf(s)
             t == StripSign(s)
         IN  IF Len(t) = 0 THEN NoneV
             ELSE IF Len(t) > 2 /\ t[1] = "0" /\ t[2] \in {"x", "X"}
             THEN (IF IsNone(PyIntBase(SubSeq(t, 3, Len(t)), 16)) THEN NoneV
                   ELSE Some(sign * PyIntBase(SubSeq(t, 3, Len(t)), 16)[1]))
             ELSE IF Len(t) > 2 /\ t[1] = "0" /\ t[2] \in {"b", "B"}
             THEN (IF IsNone(PyIntBase(SubSeq(t, 3, Len(t)), 2)) THEN NoneV
                   ELSE Some(sign * PyIntBase(SubSeq(t, 3, Len(t)), 2)[1]))
             ELSE PyInt(s)

\* a float as the decimal m * 10^e, m without trailing zeros; inf and nan by name
RECURSIVE Normal(_, _)
Normal(m, e) ==
    IF m = 0 THEN [m |-> 0, e |-> 0, name |-> ""]
    ELSE IF m % 10 = 0 THEN Normal(m \div 10, e + 1)
    ELSE [m |-> m, e |-> e, name |-> ""]

ExpAt(s) ==
    IF \E k \in 1..Len(s) : s[k] \in {"e", "E"}
    THEN CHOOSE k \in 1..Len(s) : s[k] \in {"e", "E"} /\ \A j \in 1..(k - 1) : s[j] \notin {"e", "E"}
    ELSE 0

\* float(s): [sign] (digits [. [digits]] | . digits) [e [sign] digits], [sign] inf,
\* [sign] infinity, nan in any case; NoneV stands for ValueError.  The value is the
\* decimal that is written (its nearest double is what Python holds).
PyFloatText(s) ==
    LET t == StripSign(s)
        x == ExpAt(t)
        mant == IF x = 0 THEN t ELSE SubSeq(t, 1, x - 1)
        ex == IF x = 0 THEN <<"0">> ELSE SubSeq(t, x + 1, Len(t))
        k == DotAt(mant)
        ip == IF k = 0 THEN mant ELSE SubSeq(mant, 1, k - 1)
        fp == IF k = 0 THEN <<>> ELSE SubSeq(mant, k + 1, Len(mant))
    IN  IF LowerStr(t) \in {<<"i", "n", "f">>, <<"i", "n", "f", "i", "n", "i", "t", "y">>}
        THEN Some([m |-> SignOf(s), e |-> 0, name |-> "inf"])
        ELSE IF LowerStr(t) = <<"n", "a", "n">> THEN Some([m |-> 0, e |-> 0, name |-> "nan"])
        ELSE IF Len(ip) + Len(fp) > 0 /\ AllDigits(ip) /\ AllDigits(fp) /\ ~IsNone(PyInt(ex))
        THEN Some(Normal(SignOf(s) * DigitsVal(ip \o fp), PyInt(ex)[1] - Len(fp)))
        ELSE NoneV

\* _SNBTParser._try_float: None is NoneV
_try_float(s) == IF Len(s) = 0 THEN NoneV ELSE PyFloatText(s)

\* the Python values parse returns for a bare token: int, float, str
IntValue(n) == [type |-> "int", m |-> n, e |-> 0, name |-> "", s |-> <<>>]
FloatValue(f) == [type |-> "float", m |-> f.m, e |-> f.e, name |-> f.name, s |-> <<>>]
StrValue(s) == [type |-> "str", m |-> 0, e |-> 0, name |-> "", s |-> s]

\* clean[:-n]
DropLast(s, n) == SubSeq(s, 1, Len(s) - n)

\* _SNBTParser._resolve_token
_resolve_token(token) ==
    LET clean == RemoveUnderscores(token)
        n == Len(clean)
        two == IF n > 2 /\ clean[n - 1] \in _TWO_CHAR_FIRST /\ clean[n] \in _TWO_CHAR_SECOND
               THEN _try_int(DropLast(clean, 2)) ELSE NoneV
        flt == IF n > 1 /\ clean[n] \in _FLOAT_SUFFIX
               THEN _try_float(DropLast(clean, 1)) ELSE NoneV
        one == IF n > 1 /\ clean[n] \in _INT_SUFFIX
               THEN _try_int(DropLast(clean, 1)) ELSE NoneV
    IN  IF ~IsNone(two) THEN IntValue(two[1])
        ELSE IF ~IsNone(flt) THEN FloatValue(flt[1])
        ELSE IF ~IsNone(one) THEN IntValue(one[1])
        ELSE StrValue(token)

\* _skip_ws: the position behind the whitespace at pos
RECURSIVE _skip_ws(_, _)
_skip_ws(txt, pos) ==
    IF pos < Len(txt) /\ txt[pos + 1] \in {" ", "\t", "\n", "\r"}
    THEN _skip_ws(txt, pos + 1) ELSE pos

\* ---------------------------------------------------------------- SNBT values

\* chr(n) for n < 127: the printable characters as themselves (the grave accent,
\* which a string of this language cannot hold, and the others by number)
Ascii ==
    <<" ", "!", "\"", "#", "$", "%", "&", "'", "(", ")", "*", "+", ",", "-", ".", "/",
      "0", "1", "2", "3", "4", "5", "6", "7", "8", "9", ":", ";", "<", "=", ">", "?",
      "@", "A", "B", "C", "D", "E", "F", "G", "H", "I", "J", "K", "L", "M", "N", "O",
      "P", "Q", "R", "S", "T", "U", "V", "W", "X", "Y", "Z", "[", "\\", "]", "^", "_",
      "U+96", "a", "b", "c", "d", "e", "f", "g", "h", "i", "j", "k", "l", "m", "n", "o",
      "p", "q", "r", "s", "t", "u", "v", "w", "x", "y", "z", "{", "|", "}", "~">>

Chr(n) ==
    IF n = 9 THEN "\t"
    ELSE IF n = 10 THEN "\n"
    ELSE IF n = 13 THEN "\r"
    ELSE IF n >= 32 /\ n <= 126 THEN Ascii[n - 31]
    ELSE "U+" \o ToString(n)

Whitespace == {" ", "\t", "\n", "\r"}

\* the Python values of the value grammar, beside int, float and str
BoolValue(b) == [type |-> "bool", b |-> b]
NoneValue == [type |-> "none"]
ListValue(items) == [type |-> "list", items |-> items]
DictValue(keys, vals) == [type |-> "dict", keys |-> keys, vals |-> vals]

\* result[k] = v on a dict
DictSet(d, k, v) ==
    IF \E i \in 1..Len(d.keys) : d.keys[i] = k
    THEN [d EXCEPT !.vals[CHOOSE i \in 1..Len(d.keys) : d.keys[i] = k] = v]
    ELSE DictValue(Append(d.keys, k), Append(d.vals, v))

\* ",".join(parts)
RECURSIVE JoinComma(_)
JoinComma(parts) ==
    IF Len(parts) = 0 THEN <<>>
    ELSE IF Len(parts) = 1 THEN parts[1]
    ELSE parts[1] \o <<",">> \o JoinComma(Tail(parts))

Zeros(n) == [k \in 1..n |-> "0"]

\* repr(x) of a float: the shortest digits, fixed notation while the decimal point
\* lies within (-4, 16], exponent notation with two exponent digits otherwise
FloatRepr(f) ==
    IF f.name = "inf" THEN (IF f.m < 0 THEN <<"-">> ELSE <<>>) \o <<"i", "n", "f">>
    ELSE IF f.name = "nan" THEN <<"n", "a", "n">>
    ELSE IF f.m = 0 THEN <<"0", ".", "0">>
    ELSE LET ds == NatStr(Abs(f.m))
             n == Len(ds)
             decpt == n + f.e
             sign == IF f.m < 0 THEN <<"-">> ELSE <<>>
             x == decpt - 1
         IN  sign \o
             (IF decpt > -4 /\ decpt <= 16
              THEN (IF decpt <= 0 THEN <<"0", ".">> \o Zeros(-decpt) \o ds
                    ELSE IF decpt >= n THEN ds \o Zeros(decpt - n) \o <<".", "0">>
                    ELSE SubSeq(ds, 1, decpt) \o <<".">> \o SubSeq(ds, decpt + 1, n))
              ELSE <<ds[1]>> \o (IF n > 1 THEN <<".">> \o Tail(ds) ELSE <<>>)
                   \o <<"e">> \o (IF x < 0 THEN <<"-">> ELSE <<"+">>)
                   \o (IF Abs(x) < 10 THEN <<"0">> ELSE <<>>) \o NatStr(Abs(x)))

\* mutant: the double quote is escaped, the backslash is not
RECURSIVE Escaped_QuoteOnly(_)
Escaped_QuoteOnly(s) ==
    IF Len(s) = 0 THEN <<>>
    ELSE (IF Head(s) = "\"" THEN <<"\\", "\"">> ELSE <<Head(s)>>) \o Escaped_QuoteOnly(Tail(s))

\* to_snbt, line 26: the backslash and the double quote get a backslash in front
RECURSIVE Escaped(_)
Escaped(s) ==
    IF Len(s) = 0 THEN <<>>
    ELSE (IF Head(s) = "\\" THEN <<"\\", "\\">>
          ELSE IF Head(s) = "\"" THEN <<"\\", "\"">>
          ELSE <<Head(s)>>) \o Escaped(Tail(s))

\* str(value) of a value of another type: None
PyStr(v) == <<"N", "o", "n", "e">>

\* mutant: a Boolean is written as a word
BoolText_Word(b) == IF b THEN <<"t", "r", "u", "e">> ELSE <<"f", "a", "l", "s", "e">>

\* to_snbt, line 20: a bool as a byte
BoolText(b) == IF b THEN <<"1", "b">> ELSE <<"0", "b">>

\* to_snbt
RECURSIVE to_snbt(_)
to_snbt(v) ==
    IF v.type = "bool" THEN BoolText(v.b)
    ELSE IF v.type = "int" THEN IntStr(v.m)
    ELSE IF v.type = "float" THEN FloatRepr(v) \o <<"d">>
    ELSE IF v.type = "str" THEN <<"\"">> \o Escaped(v.s) \o <<"\"">>
    ELSE IF v.type = "list"
    THEN <<"[">> \o JoinComma([i \in 1..Len(v.items) |-> to_snbt(v.items[i])]) \o <<"]">>
    ELSE IF v.type = "dict"
    THEN <<"{">> \o JoinComma([i \in 1..Len(v.keys) |->
                                  v.keys[i] \o <<":">> \o to_snbt(v.vals[i])]) \o <<"}">>
    ELSE PyStr(v)

\* ---------------------------------------------------------------- from_snbt

\* what a parsing method gives: the value and the cursor behind it, or an exception
Ok(v, p) == [err |-> FALSE, val |-> v, pos |-> p]
Fail == [err |-> TRUE, val |-> NoneValue, pos |-> 0]

\* s.strip() for the whitespace the parser knows
RECURSIVE Strip(_)
Strip(s) ==
    IF Len(s) > 0 /\ Head(s) \in Whitespace THEN Strip(Tail(s))
    ELSE IF Len(s) > 0 /\ s[Len(s)] \in Whitespace THEN Strip(SubSeq(s, 1, Len(s) - 1))
    ELSE s

\* the digits of an integer literal: single underscores between digits only
DigitGroups(ds, base) ==
    /\ Len(ds) > 0
    /\ ds[Len(ds)] # "_"
    /\ \A k \in 1..Len(ds) :
           \/ BaseDigit(ds[k], base) >= 0
           \/ ds[k] = "_" /\ k > 1 /\ ds[k - 1] # "_"

\* int(s, base) for base 10 and 16 on any string: whitespace around it, a sign, for
\* base 16 a 0x prefix, digits with single underscores; NoneV stands for ValueError
PyIntLiteral(s, base) ==
    LET t == StripSign(Strip(s))
        pre == base = 16 /\ Len(t) >= 2 /\ t[1] = "0" /\ Lower(t[2]) = "x"
        ds == IF pre THEN SubSeq(t, 3, Len(t)) ELSE t
        body == IF pre /\ Len(ds) > 0 /\ ds[1] = "_" THEN Tail(ds) ELSE ds
    IN  IF Len(ds) > 0 /\ (pre \/ ds[1] # "_") /\ DigitGroups(body, base)
        THEN Some(SignOf(Strip(s)) * BaseDigitsVal(RemoveUnderscores(body), base))
        ELSE NoneV

\* int(v) of a parsed value, for the elements of a typed array; NoneV stands for
\* ValueError, OverflowError or TypeError
IntOf(v) ==
    IF v.type = "int" THEN Some(v.m)
    ELSE IF v.type = "float"
    THEN (IF v.name # "" THEN NoneV
          ELSE IF v.e >= 0 THEN Some(v.m * Pow10(v.e))
          ELSE IF v.m >= 0 THEN Some(v.m \div Pow10(-v.e))
          ELSE Some(-((-v.m) \div Pow10(-v.e))))
    ELSE IF v.type = "str" THEN PyIntLiteral(v.s, 10)
    ELSE NoneV

\* [int(v) for v in result]
IntList(items) ==
    IF \E i \in 1..Len(items) : IsNone(IntOf(items[i])) THEN NoneV
    ELSE Some([i \in 1..Len(items) |-> IntValue(IntOf(items[i])[1])])

\* _ESCAPE_MAP
_ESCAPE_MAP ==
    [c \in {"b", "f", "n", "r", "s", "t", "\\", "'", "\""} |->
        CASE c = "b" -> Chr(8) [] c = "f" -> Chr(12) [] c = "n" -> "\n" [] c = "r" -> "\r"
          [] c = "s" -> " " [] c = "t" -> "\t" [] OTHER -> c]

\* unicodedata.lookup(name), for the names the model knows; NoneV stands for KeyError
UnicodeNames(name) ==
    IF name = <<"S", "P", "A", "C", "E">> THEN Some(" ")
    ELSE IF name = <<"C", "O", "M", "M", "A">> THEN Some(",")
    ELSE NoneV

\* chr(int(h, 16)) of the n characters at pos
HexEscape(txt, pos, n) ==
    LET h == SubSeq(txt, pos + 1, Min(pos + n, Len(txt)))
        code == PyIntLiteral(h, 16)
    IN  IF IsNone(code) \/ code[1] < 0 \/ code[1] > 1114111
        THEN [err |-> TRUE, ch |-> "", pos |-> 0]
        ELSE [err |-> FALSE, ch |-> Chr(code[1]), pos |-> pos + n]

\* the first position >= pos that holds c, or Len(txt)
RECURSIVE FindChar(_, _, _)
FindChar(txt, pos, c) ==
    IF pos < Len(txt) /\ txt[pos + 1] # c THEN FindChar(txt, pos + 1, c) ELSE pos

\* _parse_escape: pos is behind the backslash
_parse_escape(txt, pos) ==
    IF pos >= Len(txt) THEN [err |-> TRUE, ch |-> "", pos |-> 0]
    ELSE LET ch == txt[pos + 1]
             p == pos + 1
         IN  IF ch \in DOMAIN _ESCAPE_MAP THEN [err |-> FALSE, ch |-> _ESCAPE_MAP[ch], pos |-> p]
             ELSE IF ch = "x" THEN HexEscape(txt, p, 2)
             ELSE IF ch = "u" THEN HexEscape(txt, p, 4)
             ELSE IF ch = "U" THEN HexEscape(txt, p, 8)
             ELSE IF ch = "N" /\ p < Len(txt) /\ txt[p + 1] = "{"
             THEN LET close == FindChar(txt, p + 1, "}")
                      name == SubSeq(txt, p + 2, close)
                  IN  IF close >= Len(txt) \/ IsNone(UnicodeNames(name))
                      THEN [err |-> TRUE, ch |-> "", pos |-> 0]
                      ELSE [err |-> FALSE, ch |-> UnicodeNames(name)[1], pos |-> close + 1]
             ELSE [err |-> FALSE, ch |-> ch, pos |-> p]

\* _parse_string, lines 121-131: the loop, pos at the next character
RECURSIVE StringLoop(_, _, _, _)
StringLoop(txt, pos, quote, parts) ==
    IF pos >= Len(txt) THEN Fail
    ELSE IF txt[pos + 1] = quote THEN Ok(StrValue(parts), pos + 1)
    ELSE IF txt[pos + 1] = "\\"
    THEN Let(_parse_escape(txt, pos + 1),
             LAMBDA r : IF r.err THEN Fail
                        ELSE StringLoop(txt, r.pos, quote, Append(parts, r.ch)))
    ELSE StringLoop(txt, pos + 1, quote, Append(parts, txt[pos + 1]))

\* _parse_string: pos is at the opening quote
_parse_string(txt, pos) == StringLoop(txt, pos + 1, txt[pos + 1], <<>>)

\* the first position >= pos whose character is not in chars, or Len(txt)
RECURSIVE ScanWhile(_, _, _)
ScanWhile(txt, pos, chars) ==
    IF pos < Len(txt) /\ txt[pos + 1] \in chars THEN ScanWhile(txt, pos + 1, chars) ELSE pos

\* the first position >= pos whose character is in chars, or Len(txt)
RECURSIVE ScanUntil(_, _, _)
ScanUntil(txt, pos, chars) ==
    IF pos < Len(txt) /\ txt[pos + 1] \notin chars THEN ScanUntil(txt, pos + 1, chars) ELSE pos

\* _parse_unquoted_value
_parse_unquoted_value(txt, pos) ==
    LET end == ScanWhile(txt, pos, _UNQUOTED_CHARS)
    IN  IF end = pos THEN Fail
        ELSE Ok(_resolve_token(SubSeq(txt, pos + 1, end)), end)

RECURSIVE _parse_value(_, _)
RECURSIVE ItemsLoop(_, _, _, _)
RECURSIVE DictLoop(_, _, _)

\* _parse_items, lines 283-285: the list, for a typed array converted
ItemsDone(items, p, as_int) ==
    IF ~as_int THEN Ok(ListValue(items), p)
    ELSE IF IsNone(IntList(items)) THEN Fail
    ELSE Ok(ListValue(IntList(items)[1]), p)

\* _parse_items, lines 265-270: an empty list, or the first element
_parse_items(txt, pos, close, as_int) ==
    LET p == _skip_ws(txt, pos)
    IN  IF p < Len(txt) /\ txt[p + 1] = close THEN Ok(ListValue(<<>>), p + 1)
        ELSE Let(_parse_value(txt, p),
                 LAMBDA r : IF r.err THEN Fail
                            ELSE Let(ItemsLoop(txt, r.pos, close, <<r.val>>),
                                     LAMBDA l : IF l.err THEN Fail
                                                ELSE ItemsDone(l.val, l.pos, as_int)))

\* _parse_items, lines 271-282: the loop; val is the list of elements
ItemsLoop(txt, pos, close, items) ==
    LET p == _skip_ws(txt, pos)
        comma == p < Len(txt) /\ txt[p + 1] = ","
        q == IF comma THEN _skip_ws(txt, p + 1) ELSE p
    IN  IF p < Len(txt) /\ txt[p + 1] = close THEN Ok(items, p + 1)
        ELSE IF comma /\ q < Len(txt) /\ txt[q + 1] = close THEN Ok(items, q + 1)
        ELSE Let(_parse_value(txt, q),
                 LAMBDA r : IF r.err THEN Fail
                            ELSE ItemsLoop(txt, r.pos, close, Append(items, r.val)))

\* _parse_list_or_array: pos is at the opening bracket
_parse_list_or_array(txt, pos) ==
    LET p == _skip_ws(txt, pos + 1)
    IN  IF p + 1 < Len(txt) /\ txt[p + 1] \in {"B", "I", "L", "b", "i", "l"} /\ txt[p + 2] = ";"
        THEN _parse_items(txt, p + 2, "]", TRUE)
        ELSE _parse_items(txt, p, "]", FALSE)

\* _parse_kv: val is <<key, value>>; at the end of the text the test of the first
\* character raises TypeError, a missing character behind the key IndexError
_parse_kv(txt, pos) ==
    LET p == _skip_ws(txt, pos)
        end == ScanUntil(txt, p, {":", ",", "}"} \cup Whitespace)
    IN  IF p >= Len(txt) THEN Fail
        ELSE Let(IF txt[p + 1] \in {"\"", "'"} THEN _parse_string(txt, p)
                 ELSE Ok(StrValue(Strip(SubSeq(txt, p + 1, end))), end),
                 LAMBDA k :
                     IF k.err THEN Fail
                     ELSE IF _skip_ws(txt, k.pos) >= Len(txt) THEN Fail
                     ELSE Let(_parse_value(txt, _skip_ws(txt, k.pos) + 1),
                              LAMBDA r : IF r.err THEN Fail
                                         ELSE Ok(<<k.val.s, r.val>>, r.pos)))

\* _parse_dict, lines 301-313: the loop
DictLoop(txt, pos, d) ==
    LET p == _skip_ws(txt, pos)
        comma == p < Len(txt) /\ txt[p + 1] = ","
        q == IF comma THEN _skip_ws(txt, p + 1) ELSE p
    IN  IF p < Len(txt) /\ txt[p + 1] = "}" THEN Ok(d, p + 1)
        ELSE IF comma /\ q < Len(txt) /\ txt[q + 1] = "}" THEN Ok(d, q + 1)
        ELSE Let(_parse_kv(txt, q),
                 LAMBDA r : IF r.err THEN Fail
                            ELSE DictLoop(txt, r.pos, DictSet(d, r.val[1], r.val[2])))

\* _parse_dict: pos is at the opening brace
_parse_dict(txt, pos) ==
    LET p == _skip_ws(txt, pos + 1)
    IN  IF p < Len(txt) /\ txt[p + 1] = "}" THEN Ok(DictValue(<<>>, <<>>), p + 1)
        ELSE Let(_parse_kv(txt, p),
                 LAMBDA r : IF r.err THEN Fail
                            ELSE DictLoop(txt, r.pos, DictSet(DictValue(<<>>, <<>>),
                                                              r.val[1], r.val[2])))

\* _parse_value
_parse_value(txt, pos) ==
    LET p == _skip_ws(txt, pos)
    IN  IF p >= Len(txt) THEN Fail
        ELSE IF txt[p + 1] = "{" THEN _parse_dict(txt, p)
        ELSE IF txt[p + 1] = "[" THEN _parse_list_or_array(txt, p)
        ELSE IF txt[p + 1] \in {"\"", "'"} THEN _parse_string(txt, p)
        ELSE _parse_unquoted_value(txt, p)

\* from_snbt: _SNBTParser(text).parse(); the text behind the value is not looked at
from_snbt(txt) == _parse_value(txt, _skip_ws(txt, 0))

\* ---------------------------------------------------------------- shapes and animations

\* ParticleShape.__init__: it takes no options argument, so an options value can
\* only be attached to the object by the caller, as a plain attribute.
ParticleShape(points, particle, delta, speed, count, motions) ==
    [points |-> points, particle |-> particle, delta |-> delta, speed |-> speed,
     count |-> count, motions |-> motions, options |-> NoneV]

\* ParticleAnimation.__init__
ParticleAnimation == [kind |-> "a", shape |-> NoneV, frames |-> <<>>]

ShapeData(shape) == [kind |-> "s", shape |-> Some(shape), frames |-> <<>>]

\* ParticleAnimation.add_frame: self.frames[tick] = shape
add_frame(anim, tick, shape) ==
    [anim EXCEPT !.frames = [t \in (DOMAIN anim.frames) \cup {tick} |->
                                IF t = tick THEN shape ELSE anim.frames[t]]]

\* mutant: the ticks are taken in descending order
RECURSIVE SortedTicks_Descending(_)
SortedTicks_Descending(S) ==
    IF S = {} THEN <<>>
    ELSE LET t == CHOOSE x \in S : \A y \in S : x >= y
         IN  <<t>> \o SortedTicks_Descending(S \ {t})

\* sorted(data.frames)
RECURSIVE SortedTicks(_)
SortedTicks(S) ==
    IF S = {} THEN <<>>
    ELSE LET t == CHOOSE x \in S : \A y \in S : x <= y
         IN  <<t>> \o SortedTicks(S \ {t})

MinecraftPrefix == <<"m", "i", "n", "e", "c", "r", "a", "f", "t", ":">>

\* shape.particle[10:] if shape.particle.startswith("minecraft:") else shape.particle
StripPrefix(particle) ==
    IF StartsWith(particle, MinecraftPrefix)
    THEN SubSeq(particle, Len(MinecraftPrefix) + 1, Len(particle))
    ELSE particle

TypeLine(sp) == <<<<"t">>, sp>>
SpreadLine(cd) == <<<<"d">>>> \o _fmt3(cd)
SpeedLine(cv) == <<<<"v">>, _fmt(cv)>>
CountLine(cc) == <<<<"c">>, IntStr(cc)>>

\* mutant: every attribute is compared with its default, never with the frame before
ScalarLines_VsDefault(st, prv) ==
    (IF IsNone(prv) \/ st.t # prv[1].t THEN <<TypeLine(st.t)>> ELSE <<>>)
    \o (IF st.d # <<0, 0, 0>> THEN <<SpreadLine(st.d)>> ELSE <<>>)
    \o (IF st.v # 0 THEN <<SpeedLine(st.v)>> ELSE <<>>)
    \o (IF st.c # 1 THEN <<CountLine(st.c)>> ELSE <<>>)

\* mutant: without a previous state the type is compared with the default type
ScalarLines_TypeVsDefault(st, prv) ==
    (IF (IsNone(prv) /\ st.t # <<"f", "l", "a", "m", "e">>) \/ (~IsNone(prv) /\ st.t # prv[1].t)
     THEN <<TypeLine(st.t)>> ELSE <<>>)
    \o (IF IsNone(prv)
        THEN (IF st.d # <<0, 0, 0>> THEN <<SpreadLine(st.d)>> ELSE <<>>)
             \o (IF st.v # 0 THEN <<SpeedLine(st.v)>> ELSE <<>>)
             \o (IF st.c # 1 THEN <<CountLine(st.c)>> ELSE <<>>)
        ELSE (IF st.d # prv[1].d THEN <<SpreadLine(st.d)>> ELSE <<>>)
             \o (IF st.v # prv[1].v THEN <<SpeedLine(st.v)>> ELSE <<>>)
             \o (IF st.c # prv[1].c THEN <<CountLine(st.c)>> ELSE <<>>))

\* lines 228-244: the scalar lines of a record
ScalarLines(st, prv) ==
    (IF IsNone(prv) \/ st.t # prv[1].t THEN <<TypeLine(st.t)>> ELSE <<>>)
    \o (IF IsNone(prv)
        THEN (IF st.d # <<0, 0, 0>> THEN <<SpreadLine(st.d)>> ELSE <<>>)
             \o (IF st.v # 0 THEN <<SpeedLine(st.v)>> ELSE <<>>)
             \o (IF st.c # 1 THEN <<CountLine(st.c)>> ELSE <<>>)
        ELSE (IF st.d # prv[1].d THEN <<SpreadLine(st.d)>> ELSE <<>>)
             \o (IF st.v # prv[1].v THEN <<SpeedLine(st.v)>> ELSE <<>>)
             \o (IF st.c # prv[1].c THEN <<CountLine(st.c)>> ELSE <<>>))

\* _encode_shape(shape, prec, prev): (lines, state)
_encode_shape(shape, prv) ==
    LET state == [t |-> StripPrefix(shape.particle), d |-> shape.delta,
                  v |-> shape.speed, c |-> shape.count]
    IN  [lines |-> ScalarLines(state, prv)
                   \o _encode_pts(shape.points, <<"P">>)
                   \o (IF ~IsNone(shape.motions) /\ Len(shape.motions[1]) > 0
                       THEN _encode_pts(shape.motions[1], <<"M">>)
                       ELSE <<>>),
         state |-> state]

\* one whole number, in fine units
One == Unit * Pow10(Prec)

\* int(v): truncation towards zero
TruncInt(v) == IF v >= 0 THEN (v \div One) * One ELSE -(((-v) \div One) * One)

\* int(v) if v == int(v) else v
_numify(v) == IF v = TruncInt(v) THEN TruncInt(v) ELSE v

_numify3(t) == <<_numify(t[1]), _numify(t[2]), _numify(t[3])>>

\* mutant: the decoder starts from a speed of one where the encoder assumes zero
_DEFAULTS_SpeedOne == [t |-> <<"f", "l", "a", "m", "e">>, d |-> <<0, 0, 0>>, v |-> One, c |-> 1]

_DEFAULTS == [t |-> <<"f", "l", "a", "m", "e">>, d |-> <<0, 0, 0>>, v |-> 0, c |-> 1]

\* lines 375-399: one line of the loop of _decode_shape, over its locals
\* l = [i, p, d, v, c, points, motions, err]
ShapeStep(ls, l) ==
    LET line == ls[l.i + 1]
        cmd == line[1]
        next == [l EXCEPT !.i = l.i + 1]
        fail == [l EXCEPT !.err = TRUE]
    IN  IF _is_data_line(line) THEN next
        ELSE IF cmd = <<"t">> THEN
            IF Len(line) < 2 THEN fail ELSE [next EXCEPT !.p = line[2]]
        ELSE IF cmd = <<"d">> THEN
            IF Len(line) < 2 \/ IsNone(_parse_vals(Tail(line))) THEN fail
            ELSE [next EXCEPT !.d = _parse_vals(Tail(line))[1]]
        ELSE IF cmd = <<"v">> THEN
            IF Len(line) # 2 \/ IsNone(PyFloat(line[2])) THEN fail
            ELSE [next EXCEPT !.v = PyFloat(line[2])[1]]
        ELSE IF cmd = <<"c">> THEN
            IF Len(line) # 2 \/ IsNone(PyInt(line[2])) THEN fail
            ELSE [next EXCEPT !.c = PyInt(line[2])[1]]
        ELSE IF cmd \in {<<"P">>, <<"M">>} THEN
            CHOOSE out \in
                {IF r.pc = "err" THEN fail
                 ELSE IF cmd = <<"P">> THEN [l EXCEPT !.points = r.pts, !.i = r.pos]
                 ELSE [l EXCEPT !.motions = r.pts, !.i = r.pos] :
                 r \in {_decode_pts(ls, l.i)}} : TRUE
        ELSE next

\* lines 374-399: while i < len(lines)
RECURSIVE ShapeLoop(_, _)
ShapeLoop(ls, l) ==
    IF l.err \/ l.i >= Len(ls) THEN l
    ELSE CHOOSE r \in {ShapeLoop(ls, n) : n \in {ShapeStep(ls, l)}} : TRUE

\* lines 401-410: the shape and the state built from the locals
ShapeOf(l, defaults) ==
    LET particle == IF Contains(l.p, ":") THEN l.p ELSE MinecraftPrefix \o l.p
    IN  IF l.err \/ Len(l.d) < 3
        THEN [err |-> TRUE, shape |-> NoneV, state |-> defaults]
        ELSE [err |-> FALSE,
              shape |-> Some(ParticleShape(l.points, particle, _numify3(l.d), _numify(l.v), l.c,
                                           IF Len(l.motions) > 0 THEN Some(l.motions)
                                           ELSE NoneV)),
              state |-> [t |-> l.p, d |-> l.d, v |-> l.v, c |-> l.c]]

\* _decode_shape(lines, defaults): (shape, state), or err for an exception
_decode_shape(ls, defaults) ==
    CHOOSE out \in
        {ShapeOf(l, defaults) :
         l \in {ShapeLoop(ls, [i |-> 0, p |-> defaults.t, d |-> defaults.d,
                               v |-> defaults.v, c |-> defaults.c, points |-> <<>>,
                               motions |-> <<>>, err |-> FALSE])}} : TRUE

\* load, lines 442-449: one line of the body; tick -1 is "none yet"
\* l = [k, frames, tick, buf, err]
SplitStep(body, l) ==
    LET parts == body[l.k + 1]
        closed == IF l.tick >= 0 THEN Append(l.frames, <<l.tick, l.buf>>) ELSE l.frames
    IN  IF parts[1] = <<">">>
        THEN IF Len(parts) < 2 \/ IsNone(PyInt(parts[2])) THEN [l EXCEPT !.err = TRUE]
             ELSE [l EXCEPT !.k = l.k + 1, !.frames = closed,
                            !.tick = PyInt(parts[2])[1], !.buf = <<>>]
        ELSE [l EXCEPT !.k = l.k + 1, !.buf = Append(l.buf, parts)]

\* load, lines 441-451: the body split into (tick, lines) groups
RECURSIVE SplitFrames(_, _)
SplitFrames(body, l) ==
    IF l.err THEN l
    ELSE IF l.k >= Len(body)
    THEN IF l.tick >= 0 THEN [l EXCEPT !.frames = Append(l.frames, <<l.tick, l.buf>>)] ELSE l
    ELSE CHOOSE r \in {SplitFrames(body, n) : n \in {SplitStep(body, l)}} : TRUE

\* load, line 425: blank lines and lines starting with "#" are dropped
RECURSIVE KeptLines(_)
KeptLines(raw) ==
    IF Len(raw) = 0 THEN <<>>
    ELSE (IF Len(Head(raw)) = 0 \/ Head(raw)[1][1] = "#" THEN <<>> ELSE <<Head(raw)>>)
         \o KeptLines(Tail(raw))

PtsIdle ==
    /\ pts = <<>>
    /\ pc = "idle"
    /\ enc = EncIdle
    /\ lines = <<>>
    /\ dec = DecIdle

NbtIdle ==
    /\ text = <<>>
    /\ npc = "idle"
    /\ npos = 0
    /\ nstart = 0
    /\ ntoken = <<>>
    /\ value = NoneV

ValIdle ==
    /\ obj = NoneV
    /\ stext = <<>>
    /\ vpc = "idle"
    /\ vparsed = NoneV

ShpIdle ==
    /\ heap = <<>>
    /\ objs = <<>>
    /\ call = NoneV

AnimIdle ==
    /\ files = NoneV
    /\ apc = "idle"
    /\ anchor = 0
    /\ sched = {}
    /\ now = 0
    /\ played = <<>>

SpsIdle ==
    /\ data = ParticleAnimation
    /\ spc = "idle"
    /\ todo = <<>>
    /\ prev = NoneV
    /\ buf = <<>>
    /\ saved = <<>>
    /\ file = <<>>
    /\ lframes = <<>>
    /\ lstate = _DEFAULTS
    /\ dstates = <<>>
    /\ result = NoneV

\* ---------------------------------------------------------------- point block round trip

AnchorSet == {<<0, 0, 0>>, <<5 * Unit + 2 * Third, -3 * Unit, 100 * Unit>>}

DeltaSet ==
    {<<10 * Unit, 0, 0>>,
     <<0, -5 * Unit, 15 * Unit>>,
     <<Third, 0, 2 * Unit>>,
     <<-3 * Unit, 7 * Unit, -Third>>}

\* the point list that starts at a and moves by the steps ds (exact, it is the input)
RECURSIVE Walk(_, _)
Walk(a, ds) ==
    IF Len(ds) = 0 THEN <<a>>
    ELSE <<a>> \o Walk(<<a[1] + ds[1][1], a[2] + ds[1][2], a[3] + ds[1][3]>>, Tail(ds))

PtsInputs ==
    {<<>>} \cup
    {Walk(a, ds) : a \in AnchorSet,
                   ds \in UNION {[1..n -> DeltaSet] : n \in 0..(MaxPts - 1)}}

TagP == <<"P">>

InitPts ==
    /\ ShpIdle
    /\ AnimIdle
    /\ pts \in PtsInputs
    /\ pc = "call"
    /\ enc = EncIdle
    /\ lines = <<>>
    /\ dec = DecIdle
    /\ SpsIdle
    /\ NbtIdle
    /\ ValIdle

\* _encode_pts is entered with the shape's points
EncodeCall ==
    /\ pc = "call"
    /\ enc' = EncEnter(pts, TagP)
    /\ pc' = "encode"
    /\ UNCHANGED <<pts, lines, dec>>
    /\ UNCHANGED notPtsVars

\* one iteration of the encoder's segment loop or run-length loop
EncodeStep ==
    /\ pc = "encode"
    /\ enc.pc \in {"seg", "run"}
    /\ enc' = EncStep(enc)
    /\ UNCHANGED <<pts, pc, lines, dec>>
    /\ UNCHANGED notPtsVars

\* _encode_pts returns; _decode_shape finds the P line, or no line at all
EncodeReturn ==
    /\ pc = "encode"
    /\ enc.pc = "ret"
    /\ lines' = enc.out
    /\ dec' = IF Len(enc.out) = 0 THEN [DecIdle EXCEPT !.pc = "ret"]
              ELSE DecEnter(enc.out, 0)
    /\ pc' = "decode"
    /\ UNCHANGED <<pts, enc>>
    /\ UNCHANGED notPtsVars

\* one line of the point block
DecodeStep ==
    /\ pc = "decode"
    /\ dec.pc = "run"
    /\ dec' = DecStep(lines, dec)
    /\ UNCHANGED <<pts, pc, enc, lines>>
    /\ UNCHANGED notPtsVars

DecodeReturn ==
    /\ pc = "decode"
    /\ dec.pc \in {"ret", "err"}
    /\ pc' = IF dec.pc = "ret" THEN "done" ELSE "error"
    /\ UNCHANGED <<pts, enc, lines, dec>>
    /\ UNCHANGED notPtsVars

NextPts == EncodeCall \/ EncodeStep \/ EncodeReturn \/ DecodeStep \/ DecodeReturn

SpecPts == InitPts /\ [][NextPts]_vars

\* ---------------------------------------------------------------- save and load

MaxTick == 4
TickSet == 0..MaxTick

TypeA == <<"f", "l", "a", "m", "e">>
TypeB == <<"b">>
OptX == "X"
OptY == "Y"

\* shape.options = o, set by the caller on the constructed object
WithOptions(shape, o) == [shape EXCEPT !.options = Some(o)]

\* the shapes handed to save and add_frame: the default type with and without
\* its prefix, another type likewise; spread and speed at their defaults, on the
\* decimal grid and off it; with and without points, motions and options
ShapeSet ==
    {ParticleShape(<<<<0, 0, 0>>>>, MinecraftPrefix \o TypeA, <<0, 0, 0>>, 0, 1, NoneV),
     WithOptions(ParticleShape(<<<<Unit, 0, 0>>, <<2 * Unit, 0, 0>>>>, TypeA,
                               <<5 * Unit, 0, 0>>, 0, 1, NoneV), OptX),
     WithOptions(ParticleShape(<<>>, TypeB, <<0, 0, 0>>, 2 * Unit, 3, NoneV), OptX),
     WithOptions(ParticleShape(<<<<Third, -Unit, 0>>>>, MinecraftPrefix \o TypeB,
                               <<Unit + Third, 0, -Third>>, 2 * Unit + Third, 3,
                               Some(<<<<0, 10 * Unit, 0>>>>)), OptY)}

\* particle identifiers of another namespace, and with a colon behind the prefix
TypeOther == <<"m", "o", "d", ":", "x">>
TypeNested == MinecraftPrefix \o <<"a", ":", "b">>

\* shapes saved alone, for their identifiers
IdShapeSet ==
    {ParticleShape(<<<<0, 0, 0>>>>, TypeOther, <<0, 0, 0>>, 0, 1, NoneV),
     ParticleShape(<<<<0, 0, 0>>>>, TypeNested, <<0, 0, 0>>, 0, 1, NoneV)}

\* the caller holds a shape, or an animation without frames
InitSps ==
    /\ ShpIdle
    /\ AnimIdle
    /\ PtsIdle
    /\ NbtIdle
    /\ ValIdle
    /\ data \in {ParticleAnimation} \cup {ShapeData(s) : s \in ShapeSet \cup IdShapeSet}
    /\ spc = "build"
    /\ todo = <<>>
    /\ prev = NoneV
    /\ buf = <<>>
    /\ saved = <<>>
    /\ file = <<>>
    /\ lframes = <<>>
    /\ lstate = _DEFAULTS
    /\ dstates = <<>>
    /\ result = NoneV

\* anim.add_frame(tick, shape)
AddFrame ==
    /\ spc = "build"
    /\ data.kind = "a"
    /\ \E tick \in TickSet, shape \in ShapeSet : data' = add_frame(data, tick, shape)
    /\ UNCHANGED <<spc, todo, prev, buf, saved, file, lframes, lstate, dstates, result>>
    /\ UNCHANGED notSpsVars

\* ParticleShape(..., options=o): __init__ has no such parameter, TypeError
ConstructWithOptions ==
    /\ spc = "build"
    /\ data.kind = "s"
    /\ ~IsNone(data.shape[1].options)
    /\ spc' = "error"
    /\ UNCHANGED <<data, todo, prev, buf, saved, file, lframes, lstate, dstates, result>>
    /\ UNCHANGED notSpsVars

\* save, lines 267-275: the header, the block marker, prev = None
SaveBegin ==
    /\ spc = "build"
    /\ spc' = "save"
    /\ buf' = <<<<<<"#", "S", "P", "S", "1">>>>,
                IF data.kind = "s" THEN <<<<"@", "s">>>> ELSE <<<<"@", "a">>>>>>
    /\ todo' = IF data.kind = "s" THEN <<>> ELSE SortedTicks(DOMAIN data.frames)
    /\ prev' = NoneV
    /\ UNCHANGED <<data, saved, file, lframes, lstate, dstates, result>>
    /\ UNCHANGED notSpsVars

\* save, lines 271-272: the body of a single shape
SaveShape ==
    /\ spc = "save"
    /\ data.kind = "s"
    /\ \E r \in {_encode_shape(data.shape[1], NoneV)} :
           /\ buf' = buf \o r.lines
           /\ saved' = <<[tick |-> 0, body |-> r.lines, state |-> r.state]>>
    /\ spc' = "write"
    /\ UNCHANGED <<data, todo, prev, file, lframes, lstate, dstates, result>>
    /\ UNCHANGED notSpsVars

\* save, lines 276-279: one frame of the loop over sorted(data.frames)
SaveFrame ==
    /\ spc = "save"
    /\ data.kind = "a"
    /\ Len(todo) > 0
    /\ \E t \in {Head(todo)} : \E r \in {_encode_shape(data.frames[t], prev)} :
           /\ buf' = Append(buf, <<<<">">>, IntStr(t)>>) \o r.lines
           /\ prev' = Some(r.state)
           /\ saved' = Append(saved, [tick |-> t, body |-> r.lines, state |-> r.state])
    /\ todo' = Tail(todo)
    /\ UNCHANGED <<data, spc, file, lframes, lstate, dstates, result>>
    /\ UNCHANGED notSpsVars

\* save, lines 283-284: the buffer is written to the file
SaveWrite ==
    /\ \/ spc = "write"
       \/ spc = "save" /\ data.kind = "a" /\ Len(todo) = 0
    /\ file' = buf
    /\ spc' = "saved"
    /\ UNCHANGED <<data, todo, prev, buf, saved, lframes, lstate, dstates, result>>
    /\ UNCHANGED notSpsVars

\* load, lines 423-434: the file is read; a shape block is decoded at once
LoadRead ==
    /\ spc = "saved"
    /\ \E ls \in {KeptLines(file)} :
       IF Len(ls) = 0 THEN
           /\ spc' = "error"
           /\ UNCHANGED <<lframes, lstate, dstates, result>>
       ELSE \E tag \in {ls[1]}, body \in {Tail(ls)} :
           IF tag = <<<<"@", "s">>>> THEN
               \E r \in {_decode_shape(body, _DEFAULTS)} :
                   /\ spc' = IF r.err THEN "error" ELSE "done"
                   /\ result' = IF r.err THEN NoneV
                                ELSE Some(ShapeData(r.shape[1]))
                   /\ dstates' = IF r.err THEN dstates
                                 ELSE <<[tick |-> 0, state |-> r.state]>>
                   /\ UNCHANGED <<lframes, lstate>>
           ELSE IF tag = <<<<"@", "a">>>> THEN
               \E l \in {SplitFrames(body, [k |-> 0, frames |-> <<>>, tick |-> -1,
                                             buf |-> <<>>, err |-> FALSE])} :
                   /\ spc' = IF l.err THEN "error" ELSE "frames"
                   /\ lframes' = l.frames
                   /\ lstate' = _DEFAULTS
                   /\ result' = Some(ParticleAnimation)
                   /\ UNCHANGED dstates
           ELSE
               /\ spc' = "error"
               /\ UNCHANGED <<lframes, lstate, dstates, result>>
    /\ UNCHANGED <<data, todo, prev, buf, saved, file>>
    /\ UNCHANGED notSpsVars

\* load, lines 453-455: one frame of the decoding loop
LoadFrame ==
    /\ spc = "frames"
    /\ Len(lframes) > 0
    /\ \E t \in {Head(lframes)[1]} : \E r \in {_decode_shape(Head(lframes)[2], lstate)} :
           IF r.err THEN
               /\ spc' = "error"
               /\ UNCHANGED <<lframes, lstate, dstates, result>>
           ELSE
               /\ lstate' = r.state
               /\ result' = Some(add_frame(result[1], t, r.shape[1]))
               /\ dstates' = Append(dstates, [tick |-> t, state |-> r.state])
               /\ lframes' = Tail(lframes)
               /\ UNCHANGED spc
    /\ UNCHANGED <<data, todo, prev, buf, saved, file>>
    /\ UNCHANGED notSpsVars

\* load, line 456: return anim
LoadReturn ==
    /\ spc = "frames"
    /\ Len(lframes) = 0
    /\ spc' = "done"
    /\ UNCHANGED <<data, todo, prev, buf, saved, file, lframes, lstate, dstates, result>>
    /\ UNCHANGED notSpsVars

NextSps ==
    \/ AddFrame
    \/ ConstructWithOptions
    \/ SaveBegin
    \/ SaveShape
    \/ SaveFrame
    \/ SaveWrite
    \/ LoadRead
    \/ LoadFrame
    \/ LoadReturn

SpecSps == InitSps /\ [][NextSps]_vars

\* ---------------------------------------------------------------- load of a given file

MaxLoadFrames == 3
LoadTicks == 0..2

SpsHeader == <<<<"#", "S", "P", "S", "1">>>>
OtherHeader == <<<<"#", "S", "P", "S", "2">>>>
ShapeMarker == <<<<"@", "s">>>>
AnimMarker == <<<<"@", "a">>>>
OtherMarker == <<<<"@", "x">>>>

\* the first lines of a file: the version header, another one, or none
HeaderLines == {<<>>, <<SpsHeader>>, <<OtherHeader>>}

\* the block marker, an unknown one, or none
MarkerLines == {<<>>, <<ShapeMarker>>, <<AnimMarker>>, <<OtherMarker>>}

\* shape records as _encode_shape writes them
RecordBodies ==
    {<<>>,
     <<HeaderLine(<<"P">>, <<Unit, 0, 0>>)>>,
     <<TypeLine(TypeB), HeaderLine(<<"P">>, <<2 * Unit, 0, 0>>)>>}

\* streams of up to n tick markers, each followed by a record, the ticks in any order
RECURSIVE FrameStreams(_)
FrameStreams(n) ==
    IF n = 0 THEN {<<>>}
    ELSE LET r == FrameStreams(n - 1)
         IN  r \cup {<<<<<<">">>, IntStr(t)>>>> \o b \o s : t \in LoadTicks, b \in RecordBodies, s \in r}

\* the files of up to n frames
LoadFiles(n) ==
    {h \o k \o b : h \in HeaderLines, k \in MarkerLines,
                   b \in FrameStreams(n) \cup RecordBodies}

\* a file is on disk, written by any program
InitLoad ==
    /\ ShpIdle
    /\ AnimIdle
    /\ PtsIdle
    /\ NbtIdle
    /\ ValIdle
    /\ data = ParticleAnimation
    /\ spc = "saved"
    /\ todo = <<>>
    /\ prev = NoneV
    /\ buf = <<>>
    /\ saved = <<>>
    /\ file \in LoadFiles(MaxLoadFrames)
    /\ lframes = <<>>
    /\ lstate = _DEFAULTS
    /\ dstates = <<>>
    /\ result = NoneV

NextLoad ==
    \/ LoadRead
    \/ LoadFrame
    \/ LoadReturn

SpecLoad == InitLoad /\ [][NextLoad]_vars

\* ---------------------------------------------------------------- from_snbt on a bare token

MaxTok == 3

TokenAlphabet == {"0", "1", "5", "-", ".", "_", " ", "b", "s", "i", "d", "u", "x", "e", "F"}

\* the texts the claims name, and some longer forms
ExampleTexts ==
    {<<"4", "2">>, <<"-", "5">>, <<"1", ".", "5">>, <<"0", "x", "F", "F">>,
     <<"1", "_", "0", "0", "0">>, <<"t", "r", "u", "e">>, <<"f", "a", "l", "s", "e">>,
     <<"T", "R", "U", "E">>, <<"F", "a", "l", "s", "e">>,
     <<"4", "2", "i">>, <<"1", ".", "5", "d">>, <<"0", "b">>,
     <<"1", "_", "0", "0", "0", "L">>, <<"0", "x", "F", "F", "i">>, <<"0", "b", "1", "0", "b">>,
     <<"-", "4", "2", "u", "b">>, <<"1", "e", "3", "f">>, <<"2", ".", "5", "e", "-", "1", "D">>,
     <<"i", "n", "f", "d">>, <<"4", "2", "i", "_">>, <<"1", "s", "_", "b">>}

NbtInputs ==
    ExampleTexts \cup UNION {[1..n -> TokenAlphabet] : n \in 1..MaxTok}

InitNbt ==
    /\ ShpIdle
    /\ AnimIdle
    /\ PtsIdle
    /\ SpsIdle
    /\ ValIdle
    /\ text \in NbtInputs
    /\ npc = "parse"
    /\ npos = 0
    /\ nstart = 0
    /\ ntoken = <<>>
    /\ value = NoneV

\* parse and _parse_value, lines 89-111: whitespace is skipped; at the end of the
\* text ValueError; the texts of the model hold no brace, bracket or quote, so the
\* value is read by _parse_unquoted_value
ParseValue ==
    /\ npc = "parse"
    /\ \E p \in {_skip_ws(text, npos)} :
        /\ npos' = p
        /\ nstart' = p
        /\ npc' = IF p >= Len(text) THEN "error" ELSE "scan"
    /\ UNCHANGED <<text, ntoken, value>>
    /\ UNCHANGED notNbtVars

\* _parse_unquoted_value, lines 171-172: one character of the token
ScanChar ==
    /\ npc = "scan"
    /\ npos < Len(text)
    /\ text[npos + 1] \in _UNQUOTED_CHARS
    /\ npos' = npos + 1
    /\ UNCHANGED <<text, npc, nstart, ntoken, value>>
    /\ UNCHANGED notNbtVars

\* _parse_unquoted_value, lines 173-176: the token is cut out and resolved
ResolveToken ==
    /\ npc = "scan"
    /\ ~(npos < Len(text) /\ text[npos + 1] \in _UNQUOTED_CHARS)
    /\ ntoken' = SubSeq(text, nstart + 1, npos)
    /\ IF npos = nstart
       THEN npc' = "error" /\ UNCHANGED value
       ELSE npc' = "resolved" /\ value' = Some(_resolve_token(SubSeq(text, nstart + 1, npos)))
    /\ UNCHANGED <<text, npos, nstart>>
    /\ UNCHANGED notNbtVars

\* parse, lines 92-93: trailing whitespace is skipped and the value returned
ParseReturn ==
    /\ npc = "resolved"
    /\ npos' = _skip_ws(text, npos)
    /\ npc' = "done"
    /\ UNCHANGED <<text, nstart, ntoken, value>>
    /\ UNCHANGED notNbtVars

NextNbt == ParseValue \/ ScanChar \/ ResolveToken \/ ParseReturn

SpecNbt == InitNbt /\ [][NextNbt]_vars

\* ---------------------------------------------------------------- to_snbt and from_snbt on a value

MaxItems == 2

Flt(m, e) == FloatValue(Normal(m, e))
FloatInf(sign) == FloatValue([m |-> sign, e |-> 0, name |-> "inf"])
FloatNan == FloatValue([m |-> 0, e |-> 0, name |-> "nan"])

\* floats: 0.0 1.0 2.0 1.5 -0.5 0.1 123.45 1e+16 1e-05 inf -inf nan
FloatLeaves ==
    {Flt(0, 0), Flt(1, 0), Flt(2, 0), Flt(15, -1), Flt(-5, -1), Flt(1, -1), Flt(12345, -2),
     Flt(1, 16), Flt(1, -5), FloatInf(1), FloatInf(-1), FloatNan}

\* strings: empty, plain, with double quotes, with backslashes, with both, with a
\* single quote, with whitespace, and strings that read like numbers
StrLeaves ==
    {StrValue(s) : s \in {<<>>, <<"a">>, <<"h", "i">>, <<"\"">>, <<"\\">>,
                          <<"a", "\"", "b", "\\", "c">>, <<"\\", "\"">>, <<"\\", "\\">>,
                          <<"s", "a", "y", " ", "\"", "h", "i", "\"">>, <<"\\", "n">>,
                          <<"'">>, <<"a", " ", "b">>, <<"\n">>, <<"\t">>,
                          <<"4", "2">>, <<"1", "b">>, <<"1", ".", "5", "d">>}}

IntLeaves == {IntValue(0), IntValue(1), IntValue(42), IntValue(-5)}
BoolLeaves == {BoolValue(TRUE), BoolValue(FALSE)}

\* the elements of the lists of the model
ListLeaves ==
    {Flt(1, 0), Flt(0, 0), StrValue(<<"a", "\"", "b", "\\", "c">>), IntValue(42),
     BoolValue(TRUE), NoneValue}

\* the values of the maps of the model
MapLeaves == {Flt(2, 0), StrValue(<<"\\", "\"">>), IntValue(42)}

\* keys of identifier-safe characters only, and keys with a colon, a comma, a closing
\* brace, quotes, whitespace, and the empty key
SafeKeys == {<<"c", "o", "l", "o", "r">>, <<"s", "c", "a", "l", "e">>, <<"a">>}
UnsafeKeys ==
    {<<"a", ":", "b">>, <<"a", ",", "b">>, <<"a", "}">>, <<"\"", "a", "\"">>,
     <<"a", " ", "b">>, <<" ", "a">>, <<>>}
MapKeys == SafeKeys \cup UnsafeKeys

IdentifierSafe(k) == Len(k) > 0 /\ \A i \in 1..Len(k) : k[i] \in _UNQUOTED_CHARS

Injective(s) == \A i, j \in 1..Len(s) : s[i] = s[j] => i = j

\* lists of up to n elements of S
ListsOf(S, n) == {ListValue(s) : s \in UNION {[1..k -> S] : k \in 0..n}}

\* maps of up to n entries with keys of K and values of S
MapsOf(K, S, n) ==
    UNION {{DictValue(ks, vs) : ks \in {s \in [1..k -> K] : Injective(s)}, vs \in [1..k -> S]}
           : k \in 0..n}

\* {color: [1.0, 0.0, 0.0], scale: 2.0}
ExampleMap ==
    DictValue(<<(<<"c", "o", "l", "o", "r">>), (<<"s", "c", "a", "l", "e">>)>>,
              <<ListValue(<<Flt(1, 0), Flt(0, 0), Flt(0, 0)>>), Flt(2, 0)>>)

\* {color:[1.0d,0.0d,0.0d],scale:2.0d}
ExampleMapText ==
    <<"{", "c", "o", "l", "o", "r", ":", "[", "1", ".", "0", "d", ",", "0", ".", "0", "d", ",",
      "0", ".", "0", "d", "]", ",", "s", "c", "a", "l", "e", ":", "2", ".", "0", "d", "}">>

\* lists in lists, maps in lists, lists and maps in maps
NestedValues ==
    {ListValue(<<x>>) : x \in ListsOf(ListLeaves, 1) \cup MapsOf(MapKeys, MapLeaves, 1)}
    \cup {DictValue(<<k>>, <<x>>) : k \in SafeKeys,
                                    x \in ListsOf(ListLeaves, 1) \cup MapsOf(SafeKeys, MapLeaves, 1)}
    \cup {ExampleMap}

\* the values with lists and maps of up to n entries
ValueSet(n) ==
    FloatLeaves \cup StrLeaves \cup IntLeaves \cup BoolLeaves \cup {NoneValue}
    \cup ListsOf(ListLeaves, n) \cup MapsOf(MapKeys, MapLeaves, n)
    \cup NestedValues

InitVal ==
    /\ ShpIdle
    /\ AnimIdle
    /\ PtsIdle
    /\ SpsIdle
    /\ NbtIdle
    /\ obj \in {Some(v) : v \in ValueSet(MaxItems)}
    /\ stext = <<>>
    /\ vpc = "value"
    /\ vparsed = NoneV

\* to_snbt(obj): every value gets a text, line 32 for the types that are not handled
SerializeValue ==
    /\ vpc = "value"
    /\ stext' = to_snbt(obj[1])
    /\ vpc' = "text"
    /\ UNCHANGED <<obj, vparsed>>
    /\ UNCHANGED notValVars

\* from_snbt(stext): the value, or an exception
ParseText ==
    /\ vpc = "text"
    /\ \E r \in {from_snbt(stext)} :
           IF r.err
           THEN vpc' = "error" /\ vparsed' = NoneV
           ELSE vpc' = "done" /\ vparsed' = Some(r.val)
    /\ UNCHANGED <<obj, stext>>
    /\ UNCHANGED notValVars

NextVal == SerializeValue \/ ParseText

SpecVal == InitVal /\ [][NextVal]_vars

\* ---------------------------------------------------------------- from_snbt on a given text

MaxText == 4

ParseAlphabet == {"[", "]", "{", "}", "\"", "'", ",", ":", ";", "\\", " ", "a", "b", "1", "I"}

\* texts with a bracket, a brace or a quote that is not closed, texts with a closing
\* bracket or brace behind a complete value, and complete texts
ParseExamples ==
    {<<"[", "1", "b", ",", "2", "b">>, <<"{", "a", ":", "1", "b", ",">>,
     <<"{", "a", ":", "[", "1", "b", "]">>, <<"\"", "a", "b", "\\", "\"">>,
     <<"[", "1", "b", "]", "]">>, <<"{", "a", ":", "1", "b", "}", "}">>,
     <<"[", "{", "}", "]", "}">>, <<"\"", "a", "\"", " ", "]">>,
     <<"[", "I", ";", "1", ",", "2", "]">>, <<"[", "I", ";", "1", ",", "2">>,
     <<"{", "a", ":", "'", "b", "'", "}">>, ExampleMapText}

\* the examples and every text of up to n characters of the alphabet
ParseTexts(n) ==
    ParseExamples \cup UNION {[1..k -> ParseAlphabet] : k \in 0..n}

InitParse ==
    /\ ShpIdle
    /\ AnimIdle
    /\ PtsIdle
    /\ SpsIdle
    /\ NbtIdle
    /\ obj = NoneV
    /\ stext \in ParseTexts(MaxText)
    /\ vpc = "text"
    /\ vparsed = NoneV

NextParse == ParseText

SpecParse == InitParse /\ [][NextParse]_vars

\* ---------------------------------------------------------------- claims on the point block

\* the multiple of Unit nearest to v (the inputs are never half way)
NearestGrid(v) ==
    CHOOSE g \in {(v \div Unit) * Unit, (v \div Unit) * Unit + Unit} :
        2 * Abs(v - g) < Unit

NearestPoint(p) == <<NearestGrid(p[1]), NearestGrid(p[2]), NearestGrid(p[3])>>

RoundedPts(points) == [k \in 1..Len(points) |-> NearestPoint(points[k])]

OnGrid(points) ==
    \A k \in 1..Len(points) : \A a \in 1..3 : points[k][a] % Unit = 0

IsHeaderLine(line) == line[1] = TagP
IsDirectiveLine(line) == line[1] = <<"?">>
IsRunLine(line) == line[1][1] = "="
IsDeltaLine(line) == _is_data_line(line)

HeaderCount(ls) == Cardinality({k \in 1..Len(ls) : IsHeaderLine(ls[k])})
DirectiveCount(ls) == Cardinality({k \in 1..Len(ls) : IsDirectiveLine(ls[k])})
RunCount(ls) == Cardinality({k \in 1..Len(ls) : IsRunLine(ls[k])})
DeltaCount(ls) == Cardinality({k \in 1..Len(ls) : IsDeltaLine(ls[k])})

Decoded == pc = "done"

AtRunMarker ==
    /\ pc = "decode" /\ dec.pc = "run"
    /\ dec.pos < Len(lines)
    /\ IsRunLine(lines[dec.pos + 1])

MarkerK == PyInt(lines[dec.pos + 1][2])[1]
MarkerN == PyInt(lines[dec.pos + 1][3])[1]

AfterElidedLine ==
    /\ pc = "decode" /\ dec.pc = "run" /\ dec.pos >= 1
    /\ IsDeltaLine(lines[dec.pos])
    /\ Len(lines[dec.pos]) = 2

\* C7: an axis the encoder omits from a delta line has component exactly 0 in
\* that delta; the decoder puts 0 back at that index and the two written
\* components back on their axes, so the decoded point keeps the coordinate
\* of the point before it on that axis.
C7_ElisionExact ==
    /\ \A k \in 1..Len(enc.drop_map) :
          ~IsNone(enc.drop_map[k]) => enc.deltas[k][enc.drop_map[k][1] + 1] = 0
    /\ AfterElidedLine =>
          LET n == Len(dec.pts)
              a == dec.drop[1]
              d == dec.recent_deltas[Len(dec.recent_deltas)]
          IN  /\ a \in 0..2
              /\ d[a + 1] = 0
              /\ d = Sub3(RoundedPts(pts)[n], RoundedPts(pts)[n - 1])
              /\ dec.pts[n][a + 1] = dec.pts[n - 1][a + 1]
              /\ dec.pts[n] = RoundedPts(pts)[n]

\* a line without its middle component has been read, both others non-zero
C7_Witness ==
    /\ AfterElidedLine
    /\ dec.drop = Some(1)
    /\ LET d == dec.recent_deltas[Len(dec.recent_deltas)]
       IN  d[1] # 0 /\ d[2] = 0 /\ d[3] # 0

\* C8 as stated: no points encode to no line and decode to no point; one point
\* encodes to the header line alone and decodes to a list holding that point.
C8_SinglePointExact ==
    Decoded =>
        /\ Len(pts) = 0 => (lines = <<>> /\ dec.pts = <<>>)
        /\ Len(pts) = 1 => (Len(lines) = 1 /\ IsHeaderLine(lines[1]) /\ dec.pts = pts)

\* C8 amended: the one decoded point is the input point rounded to p decimals.
C8_EmptyAndSingle ==
    /\ pc # "error"
    /\ Decoded =>
        /\ Len(pts) = 0 => (lines = <<>> /\ dec.pts = <<>>)
        /\ Len(pts) = 1 => /\ Len(lines) = 1 /\ IsHeaderLine(lines[1])
                           /\ dec.pts = <<NearestPoint(pts[1])>>

\* one point off the decimal grid has been encoded and decoded
C8_Witness ==
    /\ Decoded /\ Len(pts) = 1 /\ ~OnGrid(pts)
    /\ Len(lines) = 1 /\ Len(dec.pts) = 1

ConstantStride(points) ==
    \A k \in 2..(Len(points) - 1) :
        Sub3(NearestPoint(points[k + 1]), NearestPoint(points[k]))
        = Sub3(NearestPoint(points[2]), NearestPoint(points[1]))

\* C9: N >= 3 points whose consecutive rounded deltas are all equal encode to
\* exactly one header line, one delta line and one run marker (block length 1,
\* N - 2 repeats).
C9_ConstantStride ==
    (pc \in {"decode", "done"} /\ Len(pts) >= 3 /\ ConstantStride(pts)) =>
        /\ HeaderCount(lines) = 1
        /\ DeltaCount(lines) = 1
        /\ RunCount(lines) = 1
        /\ \E k \in 1..Len(lines) : lines[k] = RunLine(1, Len(pts) - 2)
        /\ Len(lines) = 3 + DirectiveCount(lines)

\* a line of MaxPts points off the grid with a constant rounded stride
C9_Witness ==
    /\ Decoded /\ Len(pts) = MaxPts /\ ConstantStride(pts) /\ ~OnGrid(pts)
    /\ RunCount(lines) = 1

\* ---------------------------------------------------------------- claims on save and load

\* the i-th frame in tick order, as the caller built it
OrigFrame(i) == data.frames[saved[i].tick]

\* its scalar attributes, the type without the minecraft: prefix
OrigState(i) ==
    [t |-> StripPrefix(OrigFrame(i).particle), d |-> OrigFrame(i).delta,
     v |-> OrigFrame(i).speed, c |-> OrigFrame(i).count]

RoundedState(st) == [st EXCEPT !.d = NearestPoint(st.d), !.v = NearestGrid(st.v)]

CmdLines(ls, c) == SelectSeq(ls, LAMBDA l : l[1] = <<c>>)

AnimationLoading == data.kind = "a" /\ spc \in {"frames", "done"}

\* C2 as stated: after every frame the decoder's state is the encoder's state, and
\* the decoded frame has the original's stripped type, spread, speed and count;
\* the decoded ticks are the original ticks.
C2_StateExact ==
    AnimationLoading =>
        /\ \A i \in 1..Len(dstates) :
            /\ dstates[i].tick = saved[i].tick
            /\ dstates[i].state = OrigState(i)
            /\ saved[i].state = OrigState(i)
        /\ spc = "done" => DOMAIN result[1].frames = DOMAIN data.frames

\* C2, amended: after every frame the decoder's state is the encoder's state with
\* spread and speed rounded to the encoded precision (type and count are equal),
\* the decoded frame carries exactly these values, also where an attribute is back
\* at its default, and the decoded ticks are the original ticks.
C2_StateRounded ==
    AnimationLoading =>
        /\ Len(dstates) <= Len(saved)
        /\ \A i \in 1..Len(dstates) :
            LET f == result[1].frames[saved[i].tick]
                o == RoundedState(OrigState(i))
            IN  /\ dstates[i].tick = saved[i].tick
                /\ saved[i].state = OrigState(i)
                /\ dstates[i].state = o
                /\ StripPrefix(f.particle) = o.t
                /\ f.delta = o.d /\ f.speed = o.v /\ f.count = o.c
        /\ spc = "done" =>
            /\ Len(dstates) = Len(saved)
            /\ DOMAIN result[1].frames = DOMAIN data.frames

\* three frames are loaded; spread and speed went back to their defaults after a
\* frame where they were not, and one frame's spread and speed are off the grid
C2_Witness ==
    /\ data.kind = "a" /\ spc = "done" /\ Len(dstates) >= 3
    /\ \E i \in 2..Len(dstates) :
        /\ OrigState(i - 1).d # _DEFAULTS.d /\ OrigState(i - 1).v # _DEFAULTS.v
        /\ OrigState(i).d = _DEFAULTS.d /\ OrigState(i).v = _DEFAULTS.v
        /\ dstates[i].state.d = _DEFAULTS.d /\ dstates[i].state.v = _DEFAULTS.v
    /\ \E j \in 1..Len(dstates) :
        OrigState(j).v % Unit # 0 /\ OrigState(j).d[1] % Unit # 0

\* C3: in an encoded animation every frame after the first has a type, spread,
\* speed or count line exactly when that attribute differs from the frame before
\* it, the line holds the new value, and so frames with types A, A, B, B, A
\* give the three type lines A, B, A.
C3_LineIffChanged ==
    (data.kind = "a" /\ spc # "build") =>
        /\ \A i \in 2..Len(saved) :
            LET body == saved[i].body
                o == OrigState(i)
                p == OrigState(i - 1)
            IN  /\ CmdLines(body, "t") = IF o.t # p.t THEN <<TypeLine(o.t)>> ELSE <<>>
                /\ CmdLines(body, "d") = IF o.d # p.d THEN <<SpreadLine(o.d)>> ELSE <<>>
                /\ CmdLines(body, "v") = IF o.v # p.v THEN <<SpeedLine(o.v)>> ELSE <<>>
                /\ CmdLines(body, "c") = IF o.c # p.c THEN <<CountLine(o.c)>> ELSE <<>>
        /\ (spc = "saved" /\ Len(saved) = 5
            /\ [i \in 1..5 |-> OrigState(i).t] = <<TypeA, TypeA, TypeB, TypeB, TypeA>>)
           => CmdLines(file, "t") = <<TypeLine(TypeA), TypeLine(TypeB), TypeLine(TypeA)>>

\* five frames with types A, A, B, B, A have been saved, with three type lines
C3_Witness ==
    /\ data.kind = "a" /\ spc = "saved" /\ Len(saved) = 5
    /\ [i \in 1..5 |-> OrigState(i).t] = <<TypeA, TypeA, TypeB, TypeB, TypeA>>
    /\ Len(CmdLines(file, "t")) = 3

\* the options value in force at frame i: the frame's own, else the one before
RECURSIVE EffectiveOptions(_)
EffectiveOptions(i) ==
    IF i = 0 THEN NoneV
    ELSE IF ~IsNone(OrigFrame(i).options) THEN OrigFrame(i).options
    ELSE EffectiveOptions(i - 1)

\* C4 as stated: a frame whose explicit options value differs from the value in
\* force before it has exactly one options line, any other frame has none, and
\* every decoded frame carries the value in force (its own or the inherited one).
C4_OptionsInherited ==
    (data.kind = "a" /\ spc = "done") =>
        \A i \in 1..Len(saved) :
            /\ Len(CmdLines(saved[i].body, "o"))
               = IF ~IsNone(OrigFrame(i).options)
                    /\ OrigFrame(i).options # EffectiveOptions(i - 1)
                 THEN 1 ELSE 0
            /\ result[1].frames[saved[i].tick].options = EffectiveOptions(i)

\* C5 as stated: a single shape with an options value is saved with one options
\* line and loaded with an equal options value.
C5_OptionsRoundTrip ==
    (data.kind = "s" /\ spc = "done" /\ ~IsNone(data.shape[1].options)) =>
        /\ Len(CmdLines(file, "o")) = 1
        /\ result[1].shape[1].options = data.shape[1].options

\* ---------------------------------------------------------------------------
\* Claims on the bare tokens of SNBT
\* ---------------------------------------------------------------------------

\* the suffix letters as the specification lists them
FloatSuffixLetters == {"f", "F", "d", "D"}
IntSuffixLetters == {"b", "B", "s", "S", "i", "I", "l", "L"}
SignLetters == {"s", "S", "u", "U"}

NoUnderscores(s) == SelectSeq(s, LAMBDA c : c # "_")

\* the value the suffix rule gives the token tok when the suffix is looked for at
\* the end of the sequence ending
SuffixRule(tok, ending) ==
    LET n == Len(ending)
        two == n > 2 /\ ending[n - 1] \in SignLetters /\ ending[n] \in IntSuffixLetters
                     /\ ~IsNone(_try_int(DropLast(ending, 2)))
        flt == n > 1 /\ ending[n] \in FloatSuffixLetters
                     /\ ~IsNone(_try_float(DropLast(ending, 1)))
        one == n > 1 /\ ending[n] \in IntSuffixLetters
                     /\ ~IsNone(_try_int(DropLast(ending, 1)))
    IN  IF two THEN IntValue(_try_int(DropLast(ending, 2))[1])
        ELSE IF flt THEN FloatValue(_try_float(DropLast(ending, 1))[1])
        ELSE IF one THEN IntValue(_try_int(DropLast(ending, 1))[1])
        ELSE StrValue(tok)

\* the raw token ends in a type suffix letter
EndsInSuffix(tok) ==
    Len(tok) > 1 /\ tok[Len(tok)] \in FloatSuffixLetters \cup IntSuffixLetters

\* the tokens the specification names as staying strings, and the suffixed ones
NamedTokens ==
    /\ \A t \in {<<"4", "2">>, <<"-", "5">>, <<"1", ".", "5">>, <<"0", "x", "F", "F">>,
                 <<"1", "_", "0", "0", "0">>, <<"t", "r", "u", "e">>,
                 <<"f", "a", "l", "s", "e">>, <<"T", "R", "U", "E">>,
                 <<"F", "a", "l", "s", "e">>} :
           text = t => value = Some(StrValue(t))
    /\ text = <<"4", "2", "i">> => value = Some(IntValue(42))
    /\ text = <<"1", ".", "5", "d">> =>
           value = Some(FloatValue([m |-> 15, e |-> -1, name |-> ""]))
    /\ text = <<"0", "b">> => value = Some(IntValue(0))

\* C10 as stated: a bare token becomes a number only when it ends in a recognised
\* type suffix whose remaining prefix parses as a number; every other bare token
\* is returned verbatim as a string
C10_SuffixRule ==
    npc = "done" =>
        /\ value[1].type # "str" => EndsInSuffix(ntoken)
        /\ ~EndsInSuffix(ntoken) => value = Some(StrValue(ntoken))
        /\ NamedTokens

\* C10 amended: the suffix is looked for on the token with its underscores removed,
\* in the order two-character integer suffix, float suffix, one-character integer
\* suffix, the rest of that cleaned token parsing as the number; every other bare
\* token, 42, -5, 1.5, 0xFF, 1_000, true and false in any case among them, is
\* returned verbatim as a string; 42i is the integer 42, 1.5d the float 1.5 and
\* 0b the integer 0
C10_CleanSuffixRule ==
    npc = "done" =>
        /\ value = Some(SuffixRule(ntoken, NoUnderscores(ntoken)))
        /\ value[1].type = "str" => value[1].s = ntoken
        /\ NamedTokens

\* a token with an underscore behind its suffix letter has become an integer
C10_Witness ==
    /\ npc = "done"
    /\ ntoken = <<"1", "s", "_", "b">>
    /\ value = Some(IntValue(1))

\* ---------------------------------------------------------------------------
\* Claims on the animation container
\* ---------------------------------------------------------------------------

\* the ticks of the tick-marker lines of a file, in file order
TickMarkers(f) ==
    LET ms == CmdLines(f, ">")
    IN  [i \in 1..Len(ms) |-> PyInt(ms[i][2])[1]]

StrictlyIncreasing(s) == \A i \in 1..(Len(s) - 1) : s[i] < s[i + 1]

\* C13: the tick markers of a saved animation are strictly increasing, each tick
\* of the animation once, whatever the order of the add_frame calls and however
\* often a tick was added; add_frame on a tick replaces the shape held for it, and
\* the record behind a tick marker is the encoding of the shape held for it.
C13_TicksIncreasing ==
    data.kind = "a" =>
        /\ \A t \in TickSet, s \in ShapeSet :
               /\ add_frame(data, t, s).frames[t] = s
               /\ DOMAIN add_frame(data, t, s).frames = DOMAIN data.frames \cup {t}
        /\ spc = "saved" =>
               /\ StrictlyIncreasing(TickMarkers(file))
               /\ Range(TickMarkers(file)) = DOMAIN data.frames
               /\ Len(TickMarkers(file)) = Len(saved)
               /\ \A i \in 1..Len(saved) :
                      /\ saved[i].tick = TickMarkers(file)[i]
                      /\ saved[i].body
                         = _encode_shape(data.frames[saved[i].tick],
                                         IF i = 1 THEN NoneV ELSE Some(saved[i - 1].state)).lines

\* an animation holding every tick of the model has been saved; the behaviours
\* that reach it add the ticks in every order and add ticks again
C13_Witness ==
    /\ data.kind = "a" /\ spc = "saved"
    /\ DOMAIN data.frames = TickSet
    /\ TickMarkers(file) = [i \in 1..(MaxTick + 1) |-> i - 1]

\* ---------------------------------------------------------------------------
\* Claims on the shape record
\* ---------------------------------------------------------------------------

\* the shape encoded without a previous state: the single shape, or the frame of
\* the lowest tick
FirstShape == IF data.kind = "s" THEN data.shape[1] ELSE OrigFrame(1)

FirstEncoded == spc \notin {"build", "save", "idle", "error"} /\ Len(saved) > 0

\* C16 as stated: without a previous state a type line is emitted only if the
\* stripped type differs from the default type, and spread, speed and count lines
\* only if they differ from the zero vector, 0 and 1.
C16_FirstRecordVsDefaults ==
    FirstEncoded =>
        LET body == saved[1].body
        IN  /\ Len(CmdLines(body, "t")) > 0 => StripPrefix(FirstShape.particle) # _DEFAULTS.t
            /\ Len(CmdLines(body, "d")) > 0 => FirstShape.delta # <<0, 0, 0>>
            /\ Len(CmdLines(body, "v")) > 0 => FirstShape.speed # 0
            /\ Len(CmdLines(body, "c")) > 0 => FirstShape.count # 1

\* C16 amended: without a previous state the type line is always emitted, also for
\* the default type, and holds the stripped type; spread, speed and count lines are
\* emitted only if they differ from the zero vector, 0 and 1 (and then they are).
C16_FirstRecordTypeAlways ==
    FirstEncoded =>
        LET body == saved[1].body
        IN  /\ CmdLines(body, "t") = <<TypeLine(StripPrefix(FirstShape.particle))>>
            /\ Len(CmdLines(body, "d")) > 0 <=> FirstShape.delta # <<0, 0, 0>>
            /\ Len(CmdLines(body, "v")) > 0 <=> FirstShape.speed # 0
            /\ Len(CmdLines(body, "c")) > 0 <=> FirstShape.count # 1
            /\ Len(CmdLines(body, "d")) <= 1 /\ Len(CmdLines(body, "v")) <= 1
            /\ Len(CmdLines(body, "c")) <= 1

\* a shape of the default type with default spread, speed and count is saved alone:
\* its record has the type line and no spread, speed or count line
C16_Witness ==
    /\ data.kind = "s" /\ spc = "saved"
    /\ StripPrefix(FirstShape.particle) = _DEFAULTS.t
    /\ FirstShape.delta = <<0, 0, 0>> /\ FirstShape.speed = 0 /\ FirstShape.count = 1
    /\ CmdLines(file, "t") = <<TypeLine(_DEFAULTS.t)>>
    /\ CmdLines(file, "d") = <<>> /\ CmdLines(file, "v") = <<>> /\ CmdLines(file, "c") = <<>>

\* C17 as stated: the particle identifier of a shape saved alone and loaded again
\* is the identifier it was saved with, be it with the minecraft: prefix, of
\* another namespace, without a namespace, or with a colon behind the prefix.
C17_IdentifierRoundTrip ==
    (data.kind = "s" /\ spc = "done") =>
        result[1].shape[1].particle = data.shape[1].particle

\* ---------------------------------------------------------------------------
\* Claims on loading a given file
\* ---------------------------------------------------------------------------

\* the tick markers of the animation stream that load reads
StreamTicks == TickMarkers(KeptLines(file))

IsAnimationFile == Len(KeptLines(file)) > 0 /\ KeptLines(file)[1] = AnimMarker

\* C14 as stated: an animation stream whose tick markers are not strictly
\* increasing is rejected, or at least every frame of the stream is in the loaded
\* animation: no frame is lost without an error.
C14_NoFrameLost ==
    (spc = "done" /\ IsAnimationFile /\ ~StrictlyIncreasing(StreamTicks)) =>
        Cardinality(DOMAIN result[1].frames) = Len(StreamTicks)

\* C15 as stated: load fails when the first line is not the version header, and
\* when the line behind it is not a known block marker; it returns an object only
\* for a file with both.
C15_HeaderAndMarkerChecked ==
    /\ spc \in {"frames", "done"} =>
           /\ Len(file) >= 2
           /\ file[1] = SpsHeader
           /\ file[2] \in {ShapeMarker, AnimMarker}
    /\ (Len(file) < 2 \/ file[1] # SpsHeader \/ file[2] \notin {ShapeMarker, AnimMarker})
           => spc \in {"saved", "error"}
\* ---------------------------------------------------------------- claims on the value grammar

\* a value of floats, strings, lists and maps with identifier-safe keys only
RECURSIVE FloatStringTree(_)
FloatStringTree(v) ==
    IF v.type \in {"float", "str"} THEN TRUE
    ELSE IF v.type = "list" THEN \A i \in 1..Len(v.items) : FloatStringTree(v.items[i])
    ELSE IF v.type = "dict"
    THEN \A i \in 1..Len(v.keys) : IdentifierSafe(v.keys[i]) /\ FloatStringTree(v.vals[i])
    ELSE FALSE

\* an Options value: Integer, Float, Boolean, String, List of Options, Map of Options
RECURSIVE OptionsTree(_)
OptionsTree(v) ==
    IF v.type \in {"int", "float", "bool", "str"} THEN TRUE
    ELSE IF v.type = "list" THEN \A i \in 1..Len(v.items) : OptionsTree(v.items[i])
    ELSE IF v.type = "dict" THEN \A i \in 1..Len(v.keys) : OptionsTree(v.vals[i])
    ELSE FALSE

\* every key of every map in v is identifier-safe
RECURSIVE SafeKeyed(_)
SafeKeyed(v) ==
    IF v.type = "list" THEN \A i \in 1..Len(v.items) : SafeKeyed(v.items[i])
    ELSE IF v.type = "dict"
    THEN \A i \in 1..Len(v.keys) : IdentifierSafe(v.keys[i]) /\ SafeKeyed(v.vals[i])
    ELSE TRUE

Returned == vpc \in {"done", "error"}

\* C11: a value built only from Floats, Strings, Lists and Maps with identifier-safe
\* keys is parsed back from its text as the same value, strings with double quotes
\* and backslashes included; the map of color [1.0, 0.0, 0.0] and scale 2.0 is
\* written as the text of the example and read back from it
C11_FloatStringRoundTrip ==
    /\ (obj # NoneV /\ FloatStringTree(obj[1]) /\ Returned) => (vpc = "done" /\ vparsed = obj)
    /\ (obj = Some(ExampleMap) /\ vpc # "value") => stext = ExampleMapText
    /\ (stext = ExampleMapText /\ Returned) => vparsed = Some(ExampleMap)

\* the example map has been written and read back
C11_Witness ==
    /\ obj = Some(ExampleMap)
    /\ stext = ExampleMapText
    /\ vpc = "done"
    /\ vparsed = Some(ExampleMap)

\* C12 as stated: every Options value, Integer and Boolean leaves included, is parsed
\* back from its text as the same value with the same tags
C12_TagsPreserved ==
    (obj # NoneV /\ OptionsTree(obj[1]) /\ Returned) => (vpc = "done" /\ vparsed = obj)

\* what is read back from the text of v: an Integer as the String of its digits, a
\* Boolean as the Integer 1 or 0, everything else as it was
RECURSIVE ReadBack(_)
ReadBack(v) ==
    IF v.type = "int" THEN StrValue(IntStr(v.m))
    ELSE IF v.type = "bool" THEN IntValue(IF v.b THEN 1 ELSE 0)
    ELSE IF v.type = "list" THEN ListValue([i \in 1..Len(v.items) |-> ReadBack(v.items[i])])
    ELSE IF v.type = "dict"
    THEN DictValue(v.keys, [i \in 1..Len(v.vals) |-> ReadBack(v.vals[i])])
    ELSE v

\* C12, amended: an Options value with identifier-safe keys is parsed back from its
\* text as the same value except at its Integer and Boolean leaves: an Integer comes
\* back as the String of its decimal digits, a Boolean as the Integer 1 or 0
C12_TagsThroughText ==
    (obj # NoneV /\ OptionsTree(obj[1]) /\ SafeKeyed(obj[1]) /\ Returned)
        => (vpc = "done" /\ vparsed = Some(ReadBack(obj[1])))

\* the list of the Integer 42 and the Boolean true has come back as the list of the
\* String 42 and the Integer 1
C12_Witness ==
    /\ obj = Some(ListValue(<<IntValue(42), BoolValue(TRUE)>>))
    /\ vpc = "done"
    /\ vparsed = Some(ListValue(<<StrValue(<<"4", "2">>), IntValue(1)>>))

\* the text of a map of one entry begins with the key as it is, unquoted
BareKey(m, txt) ==
    /\ Len(txt) >= Len(m.keys[1]) + 2
    /\ SubSeq(txt, 2, Len(m.keys[1]) + 2) = m.keys[1] \o <<":">>

\* C18: a key is written bare only when all its characters are identifier-safe, and
\* the map parsed back from the text of a map has exactly the keys of that map
C18_KeysKept ==
    (obj # NoneV /\ obj[1].type = "dict" /\ OptionsTree(obj[1]))
        => /\ (vpc # "value" /\ Len(obj[1].keys) = 1 /\ BareKey(obj[1], stext))
                  => IdentifierSafe(obj[1].keys[1])
           /\ Returned => /\ vpc = "done"
                          /\ vparsed[1].type = "dict"
                          /\ Range(vparsed[1].keys) = Range(obj[1].keys)

\* a value with a part that is none of Boolean, Integer, Float, String, List, Map
RECURSIVE HasUnknownType(_)
HasUnknownType(v) ==
    IF v.type \in {"int", "float", "bool", "str"} THEN FALSE
    ELSE IF v.type = "list" THEN \E i \in 1..Len(v.items) : HasUnknownType(v.items[i])
    ELSE IF v.type = "dict" THEN \E i \in 1..Len(v.vals) : HasUnknownType(v.vals[i])
    ELSE TRUE

\* C20: to_snbt never returns a text for a value with a part of an unrecognized type
C20_UnknownTypeRejected ==
    (obj # NoneV /\ HasUnknownType(obj[1])) => vpc = "value"

\* the text opens a list, a map or a quoted string and holds no character that
\* could close it
Unclosed(txt) ==
    /\ Len(txt) > 0
    /\ \/ txt[1] = "[" /\ \A i \in 1..Len(txt) : txt[i] # "]"
       \/ txt[1] = "{" /\ \A i \in 1..Len(txt) : txt[i] # "}"
       \/ txt[1] \in {"\"", "'"} /\ \A i \in 2..Len(txt) : txt[i] # txt[1]

\* the text is a complete value with one closing bracket or brace behind it
SurplusClose(txt) ==
    /\ Len(txt) > 1
    /\ txt[Len(txt)] \in {"]", "}"}
    /\ \E r \in {from_snbt(SubSeq(txt, 1, Len(txt) - 1))} :
           ~r.err /\ r.pos = Len(txt) - 1

\* C19: from_snbt raises for a text with a list, map or quoted string that is not
\* closed, and for a complete value followed by a closing bracket or brace
C19_UnmatchedRejected ==
    (Returned /\ (Unclosed(stext) \/ SurplusClose(stext))) => vpc = "error"
\* ---------------------------------------------------------------- claims on the encoder's walk

\* the segment loop is at a delta whose planned elision differs from the current one
ElisionChanges ==
    /\ pc = "encode"
    /\ enc.pc = "seg"
    /\ enc.i < Len(enc.deltas)
    /\ enc.drop_map[enc.i + 1] # enc.current_drop

\* the lines the step appends to out
NewLines == SubSeq(enc'.out, Len(enc.out) + 1, Len(enc'.out))

\* C21 as stated: on every change of the elision state, to an elided axis and to no
\* elided axis alike, the step of the segment loop appends a directive line
C21_DirectiveOnEveryChange ==
    [][ElisionChanges => (Len(NewLines) = 1 /\ NewLines[1][1] = <<"?">>)]_vars

\* C21, amended: on a change to an elided axis the step of the segment loop appends
\* the directive line naming that axis, before any delta line of the new segment; on
\* a change to no elided axis it appends nothing, and the delta lines of that segment
\* are the ones with all three components; without a change no directive is written
C21_DirectiveOnNewAxis ==
    [][(ElisionChanges =>
            /\ enc'.current_drop = enc.drop_map[enc.i + 1]
            /\ enc'.j = enc.i
            /\ IF IsNone(enc.drop_map[enc.i + 1])
               THEN enc'.out = enc.out
               ELSE NewLines = <<(<<(<<"?">>), IntStr(enc.drop_map[enc.i + 1][1])>>)>>)
       /\ ((pc = "encode" /\ enc.pc = "seg" /\ ~ElisionChanges) => enc'.out = enc.out)
       /\ ((pc = "encode" /\ enc.pc = "run") =>
            /\ \A k \in enc.j..(enc'.j - 1) : enc.drop_map[k + 1] = enc.current_drop
            /\ \A k \in 1..Len(NewLines) :
                   \/ NewLines[k][1] = <<"=">>
                   \/ Len(NewLines[k]) = IF IsNone(enc.current_drop) THEN 3 ELSE 2)]_vars

\* the walk has left an elided segment for one without an elided axis: the run-length
\* loop starts behind an elided delta and no directive was written for the change
C21_Witness ==
    /\ pc = "encode"
    /\ enc.pc = "run"
    /\ enc.i > 0
    /\ enc.j = enc.i
    /\ IsNone(enc.current_drop)
    /\ ~IsNone(enc.drop_map[enc.i])
    /\ enc.out[Len(enc.out)][1] # <<"?">>
\* the run-length loop is at an unconsumed delta of the segment
AtDelta == pc = "encode" /\ enc.pc = "run" /\ enc.j < enc.seg_end

\* the block lengths considered at j
BlockLengths == 1..Min(MaxBlock, (enc.seg_end - enc.j) \div 2)

\* the k-delta block at j stands again at its r-th repeat, inside the segment
RepeatsAt(k, r) ==
    /\ enc.j + (r + 1) * k <= enc.seg_end
    /\ \A jj \in 0..(k - 1) : enc.deltas[enc.j + r * k + jj + 1] = enc.deltas[enc.j + jj + 1]

\* the number of consecutive exact repeats of the k-delta block at j in the segment
ExactRepeats(k) ==
    CHOOSE n \in 0..Len(enc.deltas) :
        /\ \A r \in 1..n : RepeatsAt(k, r)
        /\ ~RepeatsAt(k, n + 1)

\* the block lengths with at least one repeat
Candidates == {k \in BlockLengths : ExactRepeats(k) >= 1}

\* the smallest block length among those of the largest cover k * n
Chosen ==
    CHOOSE k \in Candidates :
        \A h \in Candidates :
            \/ h * ExactRepeats(h) < k * ExactRepeats(k)
            \/ h * ExactRepeats(h) = k * ExactRepeats(k) /\ k <= h

\* C26: at a position j in a segment the step of the run-length loop considers the
\* block lengths 1..min(8, remaining div 2), counts for each the consecutive exact
\* repeats inside the segment, and emits the block of the largest k * n (the smallest
\* k on ties) with its run marker, advancing by k + n * k; with no candidate it
\* emits the next delta literally and advances by one
C26_BestBlockChosen ==
    [][AtDelta =>
           IF Candidates = {}
           THEN /\ NewLines = <<_fmtD(enc.deltas[enc.j + 1], enc.current_drop)>>
                /\ enc'.j = enc.j + 1
           ELSE /\ NewLines = [x \in 1..(Chosen + 1) |->
                                  IF x <= Chosen
                                  THEN _fmtD(enc.deltas[enc.j + x], enc.current_drop)
                                  ELSE <<(<<"=">>), IntStr(Chosen), IntStr(ExactRepeats(Chosen))>>]
                /\ enc'.j = enc.j + Chosen + ExactRepeats(Chosen) * Chosen]_vars

\* a block of two different deltas has been emitted with a run marker, where the
\* block of one delta had no repeat
C26_Witness ==
    /\ pc = "encode"
    /\ enc.pc = "run"
    /\ Len(enc.out) >= 4
    /\ enc.out[Len(enc.out)][1] = <<"=">>
    /\ enc.out[Len(enc.out)][2] = <<"2">>
    /\ enc.out[Len(enc.out) - 1] # enc.out[Len(enc.out) - 2]
\* the deltas the lines stand for: one for each delta line, k * n for each run marker
RECURSIVE Covered(_)
Covered(ls) ==
    IF Len(ls) = 0 THEN 0
    ELSE (IF IsRunLine(Head(ls)) THEN PyInt(Head(ls)[2])[1] * PyInt(Head(ls)[3])[1]
          ELSE IF IsDeltaLine(Head(ls)) THEN 1
          ELSE 0)
         + Covered(Tail(ls))

Encoding == pc = "encode" /\ enc.pc \in {"seg", "run", "ret"}

\* the encoder's cursor: j inside a segment, i between segments
Cursor == IF enc.pc = "run" THEN enc.j ELSE enc.i

\* C27 as stated, its sum: at the return of any encode 1 + (literal and block
\* lines) + (sum of k * n over the run markers) is the number of input points
C27_LinesCountPoints ==
    (Encoding /\ enc.pc = "ret") => 1 + Covered(enc.out) = Len(pts)

\* C27, amended to a point list that is not empty: the lines written so far stand
\* for exactly the deltas before the cursor, every step of the run-length loop
\* consumes the deltas from j to the new j and writes lines standing for as many, the
\* cursor never passes the end of the segment, a segment holds deltas of one elision
\* state only, and at the return 1 + (literal and block lines) + (sum of k * n) is the
\* number of input points; an empty point list is encoded to no line
C27_EveryDeltaOnce ==
    [][Encoding =>
           /\ Len(pts) = 0 => enc.out = <<>>
           /\ Len(pts) >= 1 =>
                  /\ Covered(enc.out) = Cursor
                  /\ Cursor <= Len(enc.deltas)
                  /\ enc.pc = "run" =>
                         /\ enc.i <= enc.j /\ enc.j <= enc.seg_end
                         /\ enc.seg_end <= Len(enc.deltas)
                         /\ \A k \in enc.i..(enc.seg_end - 1) :
                                enc.drop_map[k + 1] = enc.current_drop
                         /\ enc.seg_end < Len(enc.deltas) =>
                                enc.drop_map[enc.seg_end + 1] # enc.current_drop
                  /\ AtDelta =>
                         /\ enc'.j > enc.j /\ enc'.j <= enc.seg_end
                         /\ Covered(NewLines) = enc'.j - enc.j
                  /\ enc.pc = "ret" =>
                         /\ Cursor = Len(enc.deltas)
                         /\ 1 + Covered(enc.out) = Len(pts)]_vars

\* an encode returns whose lines hold literal delta lines, a run marker and a
\* directive: two segments were walked
C27_Witness ==
    /\ Encoding /\ enc.pc = "ret"
    /\ Len(pts) = MaxPts
    /\ RunCount(enc.out) >= 1
    /\ DirectiveCount(enc.out) >= 1
    /\ DeltaCount(enc.out) >= 3
    /\ 1 + Covered(enc.out) = MaxPts
\* ---------------------------------------------------------------- termination of the point block

\* save and load call _encode_pts and _decode_pts and wait for them to return:
\* a loop that can take a step takes it
MaxLivePts == 5

\* the point lists of up to MaxLivePts points from the first anchor
PtsLiveInputs(n) ==
    {<<>>} \cup
    {Walk(<<0, 0, 0>>, ds) : ds \in UNION {[1..k -> DeltaSet] : k \in 0..(n - 1)}}

InitPtsLive ==
    /\ ShpIdle
    /\ AnimIdle
    /\ pts \in PtsLiveInputs(MaxLivePts)
    /\ pc = "call"
    /\ enc = EncIdle
    /\ lines = <<>>
    /\ dec = DecIdle
    /\ SpsIdle
    /\ NbtIdle
    /\ ValIdle

SpecPtsLive == InitPtsLive /\ [][NextPts]_vars /\ WF_vars(NextPts)

\* every iteration of the loops moves its index forward
LoopsAdvance ==
    /\ (pc = "encode" /\ enc.pc = "seg" /\ enc.i < Len(enc.deltas)) =>
           (enc'.pc = "run" /\ enc'.j = enc.i /\ enc'.seg_end >= enc.i + 1)
    /\ AtDelta =>
           /\ enc'.j >= enc.j + 1
           /\ \A k \in BlockLengths :
                  k >= 1 /\ enc.j + k + Repeats(enc, enc.j, k) * k <= enc.seg_end
    /\ (pc = "encode" /\ enc.pc = "run" /\ enc.j >= enc.seg_end) =>
           (enc'.pc = "seg" /\ enc'.i = enc.seg_end /\ enc'.i >= enc.i + 1)
    /\ (pc = "decode" /\ dec.pc = "run") =>
           (dec'.pc \in {"ret", "err"} \/ dec'.pos = dec.pos + 1)

\* C28: encoding and decoding a point block end on every input: every iteration of
\* the segment loop and of the run-length loop moves its index forward by at least
\* one delta, the repeat counting stays inside the segment with blocks of at least
\* one delta, the decoder moves forward by one line per step, and the decoder returns
C28_Terminates ==
    [][LoopsAdvance]_vars /\ <>(pc \in {"done", "error"})

\* a point list of the largest length has been encoded, with a directive and a run
\* marker, and decoded to its last line
C28_Witness ==
    /\ pc = "done"
    /\ Len(pts) = MaxLivePts
    /\ DirectiveCount(lines) >= 1 /\ RunCount(lines) >= 1
    /\ dec.pos = Len(lines)
    /\ Len(dec.pts) = MaxLivePts
\* ---------------------------------------------------------------- the plan of elided axes

MaxPlanPts == 8

\* deltas that are zero on the second axis, on the third, on both, and on the first
PlanDeltaSet ==
    {<<Unit, 0, Unit>>, <<Unit, Unit, 0>>, <<Unit, 0, 0>>, <<0, Unit, Unit>>}

PlanInputs(n) ==
    {Walk(<<0, 0, 0>>, ds) : ds \in UNION {[1..k -> PlanDeltaSet] : k \in 0..(n - 1)}}

InitPlan ==
    /\ ShpIdle
    /\ AnimIdle
    /\ pts \in PlanInputs(MaxPlanPts)
    /\ pc = "call"
    /\ enc = EncIdle
    /\ lines = <<>>
    /\ dec = DecIdle
    /\ SpsIdle
    /\ NbtIdle
    /\ ValIdle

\* _encode_pts alone: the plan, the walk over the segments, the return
NextPlan == EncodeCall \/ EncodeStep \/ EncodeReturn

SpecPlan == InitPlan /\ [][NextPlan]_vars

Planned == pc = "encode" /\ Len(enc.deltas) > 0

ZeroOn(axis, k) == enc.deltas[k + 1][axis + 1] = 0

\* the maximal runs [s, e) of deltas that are zero on the axis
MaximalZeroRuns(axis) ==
    {r \in (0..Len(enc.deltas)) \X (0..Len(enc.deltas)) :
        /\ r[1] < r[2]
        /\ \A k \in r[1]..(r[2] - 1) : ZeroOn(axis, k)
        /\ (r[1] = 0 \/ ~ZeroOn(axis, r[1] - 1))
        /\ (r[2] = Len(enc.deltas) \/ ~ZeroOn(axis, r[2]))}

\* the maximal zero runs of at least MinRun deltas, each with its axis
PlanCandidates ==
    UNION {{<<r[1], r[2], a>> : r \in {q \in MaximalZeroRuns(a) : q[2] - q[1] >= MinRun}} :
           a \in 0..2}

\* the maximal ranges [s, e) of deltas the plan gives one axis
AssignedRanges ==
    {c \in (0..Len(enc.deltas)) \X (0..Len(enc.deltas)) \X (0..2) :
        /\ c[1] < c[2]
        /\ enc.drop_map[c[1] + 1] = Some(c[3])
        /\ (c[1] = 0 \/ enc.drop_map[c[1]] # Some(c[3]))
        /\ \A k \in c[1]..(c[2] - 1) : enc.drop_map[k + 1] = Some(c[3])
        /\ (c[2] = Len(enc.deltas) \/ enc.drop_map[c[2] + 1] # Some(c[3]))}

AcceptedWhole(c) == \A k \in c[1]..(c[2] - 1) : enc.drop_map[k + 1] = Some(c[3])
RejectedWhole(c) == \A k \in c[1]..(c[2] - 1) : enc.drop_map[k + 1] # Some(c[3])

\* C29: the plan gives each delta at most one elided axis; every range it
\* assigns is an entire maximal zero run of that axis of at least three
\* deltas; a candidate run is accepted whole or rejected whole; a longest
\* candidate run is always accepted; and so every elided segment the encoder
\* walks spans at least three consecutive deltas.
C29_WholeRunsOnly ==
    /\ (Planned /\ enc.pc = "seg" /\ enc.i = 0) =>
           /\ Len(enc.drop_map) = Len(enc.deltas)
           /\ \A k \in 1..Len(enc.drop_map) :
                  IsNone(enc.drop_map[k]) \/ \E a \in 0..2 : enc.drop_map[k] = Some(a)
           /\ \E candidates \in {PlanCandidates} :
                  /\ AssignedRanges \subseteq candidates
                  /\ \A c \in candidates : AcceptedWhole(c) \/ RejectedWhole(c)
                  /\ candidates # {} =>
                         \E c \in candidates :
                             /\ AcceptedWhole(c)
                             /\ \A o \in candidates : o[2] - o[1] <= c[2] - c[1]
    /\ (Planned /\ enc.pc = "run" /\ ~IsNone(enc.current_drop)) =>
           /\ enc.seg_end - enc.i >= MinRun
           /\ <<enc.i, enc.seg_end>> \in MaximalZeroRuns(enc.current_drop[1])

\* a run is rejected although three of its deltas in a row are free, next to
\* an accepted run that covers the rest of it
C29_Witness ==
    /\ Planned
    /\ enc.pc = "run"
    /\ ~IsNone(enc.current_drop)
    /\ \E c \in PlanCandidates :
           /\ RejectedWhole(c)
           /\ \E s \in c[1]..(c[2] - MinRun) : \A k \in s..(s + MinRun - 1) : IsNone(enc.drop_map[k + 1])
           /\ \E o \in PlanCandidates : AcceptedWhole(o) /\ o[1] < c[1] /\ c[1] < o[2] /\ o[2] < c[2]
\* ---------------------------------------------------------------- _decode_pts on given lines

MaxDecLines == 3
MaxMarkerK == 3
MaxMarkerN == 2

\* the lines that can follow a header: delta lines of three and of two values,
\* a directive, run markers for every k and n, and a line of the next record
DecAlphabet ==
    {_fmt3(<<Unit, 0, 0>>), _fmt3(<<0, 2 * Unit, -Unit>>), <<_fmt(Unit), _fmt(3 * Unit)>>,
     DirectiveLine(1), TypeLine(TypeB)}
    \cup {RunLine(k, n) : k \in 0..MaxMarkerK, n \in 1..MaxMarkerN}
    \cup {RunLine(1, 0)}

DecInputs(n) ==
    {<<HeaderLine(TagP, <<0, 0, 0>>)>> \o ls : ls \in UNION {[1..m -> DecAlphabet] : m \in 0..n}}

\* _decode_pts is called at the header line of a block written by any program
InitDec ==
    /\ ShpIdle
    /\ AnimIdle
    /\ lines \in DecInputs(MaxDecLines)
    /\ pts = <<>>
    /\ pc = "decode"
    /\ enc = EncIdle
    /\ dec = DecEnter(lines, 0)
    /\ SpsIdle
    /\ NbtIdle
    /\ ValIdle

NextDec == DecodeStep \/ DecodeReturn

SpecDec == InitDec /\ [][NextDec]_vars

\* the points appended by one replay after another of the block of deltas
RECURSIVE Replays(_, _, _)
Replays(last, block, n) ==
    IF n = 0 \/ Len(block) = 0 THEN <<>>
    ELSE Let(Tail(Walk(last, block)), LAMBDA w : w \o Replays(w[Len(w)], block, n - 1))

\* C22: for every run marker (k, n) the decoder processes without an error,
\* exactly k*n points are appended, and they are n replays of the k delta
\* lines decoded just before the marker; for every k, 0 and more than the
\* block has decoded included.
C22_RunReplaysK ==
    [][(AtRunMarker /\ dec'.pc # "err") =>
          /\ Len(dec'.pts) = Len(dec.pts) + MarkerK * MarkerN
          /\ MarkerK <= Len(dec.recent_deltas)
          /\ dec'.pts = dec.pts \o Replays(dec.pts[Len(dec.pts)],
                                           SubSeq(dec.recent_deltas,
                                                  Len(dec.recent_deltas) - MarkerK + 1,
                                                  Len(dec.recent_deltas)),
                                           MarkerN)]_vars
\* ---------------------------------------------------------------- load of files with point blocks

MaxBlockFrames == 2

TagM == <<"M">>

\* a delta line of three values, and one of two
Delta3 == _fmt3(<<Unit, 0, 0>>)
Delta2 == <<_fmt(Unit), _fmt(Unit)>>

\* position blocks: none, the header alone, with a delta line, with an elided
\* axis and a run marker
PBlocks ==
    {<<>>,
     <<HeaderLine(TagP, <<0, 0, 0>>)>>,
     <<HeaderLine(TagP, <<0, 0, 0>>), Delta3>>,
     <<HeaderLine(TagP, <<0, 0, 0>>), DirectiveLine(0), Delta2, RunLine(1, 1)>>}

MBlockLong == <<HeaderLine(TagM, <<Unit, 0, 0>>), Delta3, Delta3>>

\* motion blocks: none, with delta lines, and two that read
\* differently behind a position block if its state were kept: a line of two
\* values without a directive, a run marker without a delta line
MBlocks ==
    {<<>>,
     MBlockLong,
     <<HeaderLine(TagM, <<Unit, 0, 0>>), Delta2>>,
     <<HeaderLine(TagM, <<Unit, 0, 0>>), RunLine(1, 1)>>}

\* the records of one shape: the blocks, then a type line or none
BlockRecords ==
    {p \o m \o t : p \in PBlocks, m \in MBlocks, t \in {<<>>, <<TypeLine(TypeB)>>}}

\* streams of up to n frames at the ticks n - 1, ..., 0 counted from the end
RECURSIVE BlockStreams(_)
BlockStreams(n) ==
    IF n = 0 THEN {<<>>}
    ELSE LET r == BlockStreams(n - 1)
         IN  r \cup {s \o <<<<<<">">>, IntStr(Len(SelectSeq(s, LAMBDA l : l[1] = <<">">>)))>>>> \o b :
                     s \in r, b \in BlockRecords}

BlockFiles(n) ==
    {<<SpsHeader, ShapeMarker>> \o b : b \in BlockRecords}
    \cup {<<SpsHeader, AnimMarker>> \o s : s \in BlockStreams(n)}

\* a file with point blocks is on disk, written by any program
InitBlocks ==
    /\ ShpIdle
    /\ AnimIdle
    /\ PtsIdle
    /\ NbtIdle
    /\ ValIdle
    /\ data = ParticleAnimation
    /\ spc = "saved"
    /\ todo = <<>>
    /\ prev = NoneV
    /\ buf = <<>>
    /\ saved = <<>>
    /\ file \in BlockFiles(MaxBlockFrames)
    /\ lframes = <<>>
    /\ lstate = _DEFAULTS
    /\ dstates = <<>>
    /\ result = NoneV

SpecBlocks == InitBlocks /\ [][NextLoad]_vars

Loaded == spc = "done" /\ ~IsNone(result)

\* the shapes load returns: the shape, or the frames of the animation
LoadedShapes ==
    IF result[1].kind = "s" THEN {result[1].shape[1]}
    ELSE {result[1].frames[t] : t \in DOMAIN result[1].frames}

\* C23: every shape load returns has no motions or as many motions as
\* positions; a file whose motion block decodes to another number of points
\* than its position block is not accepted.
C23_MotionsMatchPositions ==
    Loaded => \A s \in LoadedShapes :
                  IsNone(s.motions) \/ Len(s.motions[1]) = Len(s.points)
\* ---- claims on the blocks of a record

\* a line that continues a point block: a directive, a run marker, a delta line
IsBlockLine(line) ==
    \/ line[1] = <<"?">> /\ Len(line) >= 2
    \/ line[1][1] = "="
    \/ _is_data_line(line)

Headers(ls, tag) == {h \in 1..Len(ls) : ls[h][1] = tag}

\* the lines of the block whose header is line h, up to the next record
BlockOf(ls, h) ==
    SubSeq(ls, h, CHOOSE e \in h..Len(ls) :
                      /\ \A k \in (h + 1)..e : IsBlockLine(ls[k])
                      /\ (e = Len(ls) \/ ~IsBlockLine(ls[e + 1])))

\* the last block of the tag decoded by itself: its points, none without a header
BlockAlone(ls, tag) ==
    IF Headers(ls, tag) = {} THEN <<>>
    ELSE _decode_pts(BlockOf(ls, CHOOSE h \in Headers(ls, tag) : \A o \in Headers(ls, tag) : o <= h),
                     0).pts

\* some block of the record, decoded by itself, raises an error
BlockFails(ls) ==
    \E h \in Headers(ls, TagP) \cup Headers(ls, TagM) : _decode_pts(BlockOf(ls, h), 0).pc = "err"

\* the type of the last type line of the record, t0 without one
LastType(ls, t0) ==
    IF Headers(ls, <<"t">>) = {} THEN t0
    ELSE ls[CHOOSE h \in Headers(ls, <<"t">>) : \A o \in Headers(ls, <<"t">>) : o <= h][2]

\* shape s and type t are what the record ls gives by itself behind the type t0
DecodedAlone(ls, t0, s, t) ==
    /\ s.points = BlockAlone(ls, TagP)
    /\ s.motions = IF Headers(ls, TagM) = {} THEN NoneV ELSE Some(BlockAlone(ls, TagM))
    /\ t = LastType(ls, t0)

AtFrame == spc = "frames" /\ Len(lframes) > 0
AtShape == spc = "saved" /\ KeptLines(file)[1] = ShapeMarker

\* C30: the state of the decoder is local to each block and each frame: a
\* block decodes as it does by itself, whatever directive or delta lines the
\* block before it holds; the line that ends a block is read as the next
\* record; and a frame takes no positions or motions from the frame before
\* it, a frame without a position block has no points.
C30_BlocksAreLocal ==
    [][/\ (AtFrame /\ lframes' = Tail(lframes)) =>
              DecodedAlone(Head(lframes)[2], lstate.t,
                           result'[1].frames[Head(lframes)[1]], lstate'.t)
       /\ (AtFrame /\ BlockFails(Head(lframes)[2])) => spc' = "error"
       /\ (AtShape /\ spc' = "done") =>
              DecodedAlone(Tail(KeptLines(file)), _DEFAULTS.t,
                           result'[1].shape[1], dstates'[1].state.t)
       /\ (AtShape /\ BlockFails(Tail(KeptLines(file)))) => spc' = "error"]_vars

\* an animation is loaded whose first frame holds a position block with an
\* elided axis and a run marker, a motion block and a type line behind it,
\* and whose second frame holds no block
C30_Witness ==
    /\ Loaded
    /\ result[1].kind = "a"
    /\ DOMAIN result[1].frames = {0, 1}
    /\ Len(result[1].frames[0].points) = 3
    /\ result[1].frames[0].motions = Some(BlockAlone(MBlockLong, TagM))
    /\ result[1].frames[0].particle = MinecraftPrefix \o TypeB
    /\ result[1].frames[1].points = <<>>
    /\ IsNone(result[1].frames[1].motions)
    /\ result[1].frames[1].particle = MinecraftPrefix \o TypeB
\* ---------------------------------------------------------------- ParticleShape (shape.py)

MaxObjs == 3
MaxListLen == 2

\* a new list object with the given content: the heap and the id of the list
Alloc(h, content) == [heap |-> Append(h, content), id |-> Len(h) + 1]

\* the object and the heap an operation leaves; new is None where it raised
Built(h, o) == [heap |-> h, new |-> Some(o)]
Raised(h) == [heap |-> h, new |-> NoneV]

\* ParticleShape.__init__: self.points = points or [] keeps the list it is given
\* unless that is None or empty; self.motions = motions keeps it always
ShapeInit(h, points, particle, delta, speed, count, motions) ==
    IF IsNone(points) \/ Len(h[points[1]]) = 0
    THEN Let(Alloc(h, <<>>), LAMBDA a :
             Built(a.heap, [points |-> a.id, particle |-> particle, delta |-> delta,
                            speed |-> speed, count |-> count, motions |-> motions]))
    ELSE Built(h, [points |-> points[1], particle |-> particle, delta |-> delta,
                   speed |-> speed, count |-> count, motions |-> motions])

\* ParticleShape._copy: list(self.points), list(self.motions)
_copy(h, s) ==
    Let(Alloc(h, h[s.points]), LAMBDA p :
        IF IsNone(s.motions)
        THEN ShapeInit(p.heap, Some(p.id), s.particle, s.delta, s.speed, s.count, NoneV)
        ELSE Let(Alloc(p.heap, p.heap[s.motions[1]]), LAMBDA m :
                 ShapeInit(m.heap, Some(p.id), s.particle, s.delta, s.speed, s.count,
                           Some(m.id))))

\* new.points = content, new.motions = content, new.speed = speed
SetPoints(r, content) ==
    Let(Alloc(r.heap, content), LAMBDA a : Built(a.heap, [r.new[1] EXCEPT !.points = a.id]))
SetMotions(r, content) ==
    Let(Alloc(r.heap, content), LAMBDA a : Built(a.heap, [r.new[1] EXCEPT !.motions = Some(a.id)]))
SetSpeed(r, speed) == Built(r.heap, [r.new[1] EXCEPT !.speed = speed])

PointsOf(r) == r.heap[r.new[1].points]
MotionsOf(r) == r.heap[r.new[1].motions[1]]

\* math.sqrt, to the unit of the model
RECURSIVE Isqrt(_)
Isqrt(n) ==
    IF n < 2 THEN n
    ELSE Let(2 * Isqrt(n \div 4), LAMBDA s : IF (s + 1) * (s + 1) > n THEN s ELSE s + 1)

\* (dx / length, dy / length, dz / length), or the given vector for length 0
Direction(d, zero) ==
    Let(Isqrt(d[1] * d[1] + d[2] * d[2] + d[3] * d[3]), LAMBDA length :
        IF length > 0
        THEN <<(d[1] * One) \div length, (d[2] * One) \div length, (d[3] * One) \div length>>
        ELSE zero)

with_motion(h, s, d, speed) ==
    Let(_copy(h, s), LAMBDA new :
        SetSpeed(SetMotions(new, [k \in 1..Len(PointsOf(new)) |-> d]), speed))

with_radial_motion(h, s, speed, center) ==
    Let(_copy(h, s), LAMBDA new :
        SetSpeed(SetMotions(new, [k \in 1..Len(PointsOf(new)) |->
                                     Direction(Sub3(PointsOf(new)[k], center), <<0, One, 0>>)]),
                 speed))

with_tangent_motion(h, s, speed) ==
    Let(_copy(h, s), LAMBDA new :
        SetSpeed(SetMotions(new, [k \in 1..Len(PointsOf(new)) |->
                                     Direction(Sub3(PointsOf(new)[(k % Len(PointsOf(new))) + 1],
                                                    PointsOf(new)[k]), <<0, 0, 0>>)]),
                 speed))

\* the function the caller hands to with_custom_motion
CallerFunc(p) == <<p[3], p[1], p[2]>>

\* func is the caller's function
with_custom_motion(h, s, speed) ==
    Let(_copy(h, s), LAMBDA new :
        SetSpeed(SetMotions(new, [k \in 1..Len(PointsOf(new)) |-> CallerFunc(PointsOf(new)[k])]),
                 speed))

offset(h, s, v) ==
    SetPoints(_copy(h, s), [k \in 1..Len(h[s.points]) |-> Add3(h[s.points][k], v)])

\* the factor is a whole number
scale(h, s, factor) ==
    SetPoints(_copy(h, s), [k \in 1..Len(h[s.points]) |->
                               <<h[s.points][k][1] * factor, h[s.points][k][2] * factor,
                                 h[s.points][k][3] * factor>>])

\* the rotations, for an angle given by its cosine and sine (quarter turns:
\* both are whole numbers)
RotY(p, c, sn) == <<p[1] * c + p[3] * sn, p[2], -p[1] * sn + p[3] * c>>
RotX(p, c, sn) == <<p[1], p[2] * c - p[3] * sn, p[2] * sn + p[3] * c>>
RotZ(p, c, sn) == <<p[1] * c - p[2] * sn, p[1] * sn + p[2] * c, p[3]>>

Rotated(h, s, Rot(_)) ==
    Let(SetPoints(_copy(h, s), [k \in 1..Len(h[s.points]) |-> Rot(h[s.points][k])]),
        LAMBDA new :
            IF IsNone(new.new[1].motions) THEN new
            ELSE SetMotions(new, [k \in 1..Len(MotionsOf(new)) |-> Rot(MotionsOf(new)[k])]))

rotate_y(h, s, c, sn) == Rotated(h, s, LAMBDA p : RotY(p, c, sn))
rotate_x(h, s, c, sn) == Rotated(h, s, LAMBDA p : RotX(p, c, sn))
rotate_z(h, s, c, sn) == Rotated(h, s, LAMBDA p : RotZ(p, c, sn))

ZeroMotions(n) == [k \in 1..n |-> <<0, 0, 0>>]

merge(h, s, other) ==
    Let(Alloc(h, h[s.points] \o h[other.points]), LAMBDA combined_points :
        IF IsNone(s.motions) /\ IsNone(other.motions)
        THEN ShapeInit(combined_points.heap, Some(combined_points.id), s.particle, s.delta,
                       s.speed, s.count, NoneV)
        ELSE Let(Alloc(combined_points.heap,
                       (IF IsNone(s.motions) THEN ZeroMotions(Len(h[s.points]))
                        ELSE h[s.motions[1]])
                       \o (IF IsNone(other.motions) THEN ZeroMotions(Len(h[other.points]))
                           ELSE h[other.motions[1]])),
                 LAMBDA combined_motions :
                     ShapeInit(combined_motions.heap, Some(combined_points.id), s.particle,
                               s.delta, s.speed, s.count, Some(combined_motions.id))))

\* int(len(self.points) * max(0.0, min(1.0, density))) for the density num / den
SampleCount(len, num, den) ==
    IF num <= 0 THEN 0 ELSE IF num >= den THEN len ELSE (len * num) \div den

\* sampled: the modulo by len(self.points) raises ZeroDivisionError for a shape
\* without points, and self.motions[i] raises IndexError where the caller made
\* the motions shorter than the points
sampled(h, s, num, den) ==
    Let(Len(h[s.points]), LAMBDA len :
    Let(IF SampleCount(len, num, den) < 1 THEN 1 ELSE SampleCount(len, num, den), LAMBDA n :
        IF len = 0 THEN Raised(h)
        ELSE Let([i \in 1..n |-> (((i - 1) * len) \div n) % len], LAMBDA indices :
             Let(Alloc(h, [i \in 1..n |-> h[s.points][indices[i] + 1]]), LAMBDA new_points :
                 IF IsNone(s.motions)
                 THEN ShapeInit(new_points.heap, Some(new_points.id), s.particle, s.delta,
                                s.speed, s.count, NoneV)
                 ELSE IF \E i \in 1..n : indices[i] >= Len(h[s.motions[1]])
                 THEN Raised(h)
                 ELSE Let(Alloc(new_points.heap,
                                [i \in 1..n |-> h[s.motions[1]][indices[i] + 1]]),
                          LAMBDA new_motions :
                              ShapeInit(new_motions.heap, Some(new_points.id), s.particle,
                                        s.delta, s.speed, s.count, Some(new_motions.id)))))))

\* ---- the caller's shapes and calls ----

PointA == <<3 * One, 0, 4 * One>>
PointB == <<0, 0, 0>>
PointC == <<0, -5 * One, Unit>>
ShiftV == <<One, 0, -2 * One>>

\* ParticleShape(), ParticleShape([a, b, c]), ParticleShape([a], motions=[v])
ShapeConfigs ==
    {ShapeInit(<<>>, NoneV, MinecraftPrefix \o TypeA, <<0, 0, 0>>, 0, 1, NoneV),
     ShapeInit(<<<<PointA, PointB, PointC>>>>, Some(1), MinecraftPrefix \o TypeA,
               <<0, 0, 0>>, 0, 1, NoneV),
     ShapeInit(<<<<PointA>>, <<ShiftV>>>>, Some(1), TypeB,
               <<Unit, 0, 0>>, One, 0, Some(2))}

InitShape ==
    /\ PtsIdle
    /\ SpsIdle
    /\ NbtIdle
    /\ ValIdle
    /\ AnimIdle
    /\ \E c \in ShapeConfigs : heap = c.heap /\ objs = <<c.new[1]>>
    /\ call = NoneV

\* the call returns r to the caller, who keeps the new shape
Returns(name, i, j, r) ==
    /\ Len(objs) < MaxObjs
    /\ heap' = r.heap
    /\ objs' = IF IsNone(r.new) THEN objs ELSE Append(objs, r.new[1])
    /\ call' = Some([op |-> name, self |-> i, other |-> j, raised |-> IsNone(r.new),
                     new |-> IF IsNone(r.new) THEN 0 ELSE Len(objs) + 1, lines |-> <<>>])
    /\ UNCHANGED notShpVars

WithMotion ==
    \E i \in 1..Len(objs) : \E r \in {with_motion(heap, objs[i], ShiftV, One)} :
        Returns("with_motion", i, 0, r)

WithRadialMotion ==
    \E i \in 1..Len(objs) : \E r \in {with_radial_motion(heap, objs[i], One, <<0, 0, 0>>)} :
        Returns("with_radial_motion", i, 0, r)

WithTangentMotion ==
    \E i \in 1..Len(objs) : \E r \in {with_tangent_motion(heap, objs[i], One)} :
        Returns("with_tangent_motion", i, 0, r)

WithCustomMotion ==
    \E i \in 1..Len(objs) : \E r \in {with_custom_motion(heap, objs[i], One)} :
        Returns("with_custom_motion", i, 0, r)

Offset ==
    \E i \in 1..Len(objs) : \E r \in {offset(heap, objs[i], ShiftV)} :
        Returns("offset", i, 0, r)

Scale ==
    \E i \in 1..Len(objs), factor \in {0, 2} : \E r \in {scale(heap, objs[i], factor)} :
        Returns("scale", i, 0, r)

RotateX ==
    \E i \in 1..Len(objs) : \E r \in {rotate_x(heap, objs[i], 0, 1)} :
        Returns("rotate_x", i, 0, r)

RotateY ==
    \E i \in 1..Len(objs) : \E r \in {rotate_y(heap, objs[i], 0, 1)} :
        Returns("rotate_y", i, 0, r)

RotateZ ==
    \E i \in 1..Len(objs) : \E r \in {rotate_z(heap, objs[i], -1, 0)} :
        Returns("rotate_z", i, 0, r)

Merge ==
    \E i \in 1..Len(objs), j \in 1..Len(objs) : \E r \in {merge(heap, objs[i], objs[j])} :
        Returns("merge", i, j, r)

Sampled ==
    \E i \in 1..Len(objs), density \in {<<0, 1>>, <<1, 2>>, <<1, 1>>} :
        \E r \in {sampled(heap, objs[i], density[1], density[2])} :
            Returns("sampled", i, 0, r)

\* the shape as _encode_shape reads it
ShapeValue(h, s) ==
    ParticleShape(h[s.points], s.particle, s.delta, s.speed, s.count,
                  IF IsNone(s.motions) THEN NoneV ELSE Some(h[s.motions[1]]))

\* save(shape, ...): _encode_shape reads the shape
Encode ==
    /\ \E i \in 1..Len(objs) : \E r \in {_encode_shape(ShapeValue(heap, objs[i]), NoneV)} :
           call' = Some([op |-> "encode", self |-> i, other |-> 0, raised |-> FALSE,
                         new |-> 0, lines |-> r.lines])
    /\ UNCHANGED <<heap, objs>>
    /\ UNCHANGED notShpVars

\* the caller changes a list it holds: shape.points.append(p)
AppendPoint ==
    /\ \E i \in 1..Len(objs) :
           /\ Len(heap[objs[i].points]) < MaxListLen
           /\ heap' = [heap EXCEPT ![objs[i].points] = Append(@, ShiftV)]
           /\ call' = Some([op |-> "append", self |-> i, other |-> 0, raised |-> FALSE,
                            new |-> 0, lines |-> <<>>])
    /\ UNCHANGED objs
    /\ UNCHANGED notShpVars

NextShape ==
    \/ WithMotion
    \/ WithRadialMotion
    \/ WithTangentMotion
    \/ WithCustomMotion
    \/ Offset
    \/ Scale
    \/ RotateX
    \/ RotateY
    \/ RotateZ
    \/ Merge
    \/ Sampled
    \/ Encode
    \/ AppendPoint

SpecShape == InitShape /\ [][NextShape]_vars

\* ---- claims on the shape operations

ShapeOps ==
    {"offset", "scale", "rotate_x", "rotate_y", "rotate_z", "with_motion",
     "with_radial_motion", "with_tangent_motion", "with_custom_motion", "merge", "sampled"}

\* the list objects of a shape
ListsOfShape(o) == {o.points} \cup (IF IsNone(o.motions) THEN {} ELSE {o.motions[1]})

\* the shape i and the content of its lists are as before the step
Untouched(i) ==
    /\ objs'[i] = objs[i]
    /\ \A id \in ListsOfShape(objs[i]) : heap'[id] = heap[id]

Called(names) == call' # call /\ call'[1].op \in names

\* the called operation returned a new object that shares no list with the
\* shapes there were
NewShapeReturned ==
    /\ ~call'[1].raised
    /\ Len(objs') = Len(objs) + 1
    /\ call'[1].new = Len(objs')
    /\ \A i \in 1..Len(objs) :
           ListsOfShape(objs'[Len(objs')]) \cap ListsOfShape(objs[i]) = {}

\* C24: every shape operation returns a new shape and leaves the points,
\* motions, particle, spread, speed and count of the receiver and of the
\* argument unchanged; the new shape shares no list with them, so a later
\* change to a list of one shape is not seen in another; encoding a shape
\* leaves it unchanged.
C24_OperationsReturnNew ==
    [][/\ Called(ShapeOps) => (NewShapeReturned /\ \A i \in 1..Len(objs) : Untouched(i))
       /\ Called({"append"}) => \A i \in 1..Len(objs) : i # call'[1].self => Untouched(i)
       /\ Called({"encode"}) => \A i \in 1..Len(objs) : Untouched(i)]_vars

\* the same with the one call that raises set apart: it returns nothing and
\* changes nothing
ShapeOperationsFrame ==
    [][/\ (Called(ShapeOps) /\ ~call'[1].raised) =>
              (NewShapeReturned /\ \A i \in 1..Len(objs) : Untouched(i))
       /\ (Called(ShapeOps) /\ call'[1].raised) =>
              /\ call'[1].op = "sampled"
              /\ \/ Len(heap[objs[call'[1].self].points]) = 0
                 \/ /\ ~IsNone(objs[call'[1].self].motions)
                    /\ Len(heap[objs[call'[1].self].motions[1]])
                           < Len(heap[objs[call'[1].self].points])
              /\ heap' = heap /\ objs' = objs
       /\ Called({"append"}) => \A i \in 1..Len(objs) : i # call'[1].self => Untouched(i)
       /\ Called({"encode"}) => \A i \in 1..Len(objs) : Untouched(i)]_vars

\* ---------------------------------------------------------------- save_animation (compiler.py)

MaxAnimTick == 2
MaxNow == 5

\* the names of the generated functions
MainFn == <<"main", 0>>
StopFn == <<"stop", 0>>
FrameFn(tick) == <<"frame", tick>>
ParticlesFn(tick) == <<"particles", tick>>

\* the commands save_animation writes
ExecuteAtAnchor(fn) == [cmd |-> "execute_at", fn |-> fn, delay |-> 0]
ScheduleFunction(fn, delay) == [cmd |-> "schedule", fn |-> fn, delay |-> delay]
ScheduleClear(fn) == [cmd |-> "schedule_clear", fn |-> fn, delay |-> 0]
KillAnchor == [cmd |-> "kill", fn |-> <<>>, delay |-> 0]
SummonAnchor == [cmd |-> "summon", fn |-> <<>>, delay |-> 0]
CallFunction(fn) == [cmd |-> "function", fn |-> fn, delay |-> 0]

\* the frame file of the i-th tick (from 0): the particle call at the anchor,
\* the schedule of the next frame, or of the first one where loop is set, and
\* the kill of the anchor in the last frame
frame_cmds(sorted_ticks, i, loop) ==
    <<ExecuteAtAnchor(ParticlesFn(sorted_ticks[i + 1]))>>
    \o (IF i + 1 < Len(sorted_ticks)
        THEN <<ScheduleFunction(FrameFn(sorted_ticks[i + 2]),
                                sorted_ticks[i + 2] - sorted_ticks[i + 1])>>
        ELSE IF loop THEN <<ScheduleFunction(FrameFn(sorted_ticks[1]), 1)>>
        ELSE <<>>)
    \o (IF i + 1 = Len(sorted_ticks) THEN <<KillAnchor>> ELSE <<>>)

main_cmds(sorted_ticks) == <<KillAnchor, SummonAnchor, CallFunction(FrameFn(sorted_ticks[1]))>>

stop_cmds(sorted_ticks) ==
    [k \in 1..Len(sorted_ticks) |-> ScheduleClear(FrameFn(sorted_ticks[k]))] \o <<KillAnchor>>

\* the files written for an animation with frames at the given ticks; none for
\* an animation without frames
save_animation(ticks, loop) ==
    Let(SortedTicks(ticks), LAMBDA sorted_ticks :
        IF sorted_ticks = <<>> THEN NoneV
        ELSE Some([loop |-> loop,
                   sorted_ticks |-> sorted_ticks,
                   functions |->
                       [fn \in {MainFn, StopFn} \cup {FrameFn(t) : t \in ticks} |->
                           IF fn = MainFn THEN main_cmds(sorted_ticks)
                           ELSE IF fn = StopFn THEN stop_cmds(sorted_ticks)
                           ELSE frame_cmds(sorted_ticks,
                                           (CHOOSE k \in 1..Len(sorted_ticks) :
                                                sorted_ticks[k] = fn[2]) - 1,
                                           loop)]]))

\* ---- the game running the functions ----

\* the game: the number of anchor entities, the scheduled functions and the
\* frames played
Game == [anchor |-> anchor, sched |-> sched, played |-> played]

RECURSIVE RunCommands(_, _, _, _)

\* one command at game time t
RunCommand(fs, c, t, g) ==
    CASE c.cmd = "execute_at" ->
             [g EXCEPT !.played = Append(@, [fn |-> c.fn, at |-> t, anchor |-> g.anchor > 0])]
      [] c.cmd = "schedule" ->
             [g EXCEPT !.sched = {s \in @ : s.fn # c.fn} \cup {[fn |-> c.fn, at |-> t + c.delay]}]
      [] c.cmd = "schedule_clear" -> [g EXCEPT !.sched = {s \in @ : s.fn # c.fn}]
      [] c.cmd = "kill" -> [g EXCEPT !.anchor = 0]
      [] c.cmd = "summon" -> [g EXCEPT !.anchor = @ + 1]
      [] c.cmd = "function" -> RunCommands(fs, fs[c.fn], t, g)

RunCommands(fs, cmds, t, g) ==
    IF cmds = <<>> THEN g
    ELSE Let(RunCommand(fs, Head(cmds), t, g), LAMBDA after :
             RunCommands(fs, Tail(cmds), t, after))

\* the functions due at time t, the earliest frame first
RECURSIVE RunDue(_, _, _, _)
RunDue(fs, due, t, g) ==
    IF due = {} THEN g
    ELSE Let(CHOOSE s \in due : \A o \in due : s.fn[2] <= o.fn[2], LAMBDA s :
         Let(RunCommands(fs, fs[s.fn], t, g), LAMBDA after :
             RunDue(fs, due \ {s}, t, after)))

GameBecomes(g) ==
    /\ anchor' = g.anchor
    /\ sched' = g.sched
    /\ played' = g.played

InitAnim ==
    /\ PtsIdle
    /\ SpsIdle
    /\ NbtIdle
    /\ ValIdle
    /\ ShpIdle
    /\ \E ticks \in SUBSET (0..MaxAnimTick), loop \in BOOLEAN :
           files = save_animation(ticks, loop)
    /\ apc = "saved"
    /\ anchor = 0
    /\ sched = {}
    /\ now = 0
    /\ played = <<>>

\* /function <func_path>/main
RunMain ==
    /\ apc = "saved"
    /\ ~IsNone(files)
    /\ GameBecomes(RunCommands(files[1].functions, files[1].functions[MainFn], now, Game))
    /\ apc' = "playing"
    /\ UNCHANGED <<files, now>>
    /\ UNCHANGED notAnimVars

\* a game tick: the functions scheduled for it run
Tick ==
    /\ ~IsNone(files)
    /\ now < MaxNow
    /\ now' = now + 1
    /\ GameBecomes(RunDue(files[1].functions, {s \in sched : s.at = now + 1}, now + 1,
                          [Game EXCEPT !.sched = {s \in sched : s.at # now + 1}]))
    /\ UNCHANGED <<files, apc>>
    /\ UNCHANGED notAnimVars

\* /function <func_path>/stop
RunStop ==
    /\ apc = "playing"
    /\ GameBecomes(RunCommands(files[1].functions, files[1].functions[StopFn], now, Game))
    /\ apc' = "stopped"
    /\ UNCHANGED <<files, now>>
    /\ UNCHANGED notAnimVars

NextAnim == RunMain \/ Tick \/ RunStop

SpecAnim == InitAnim /\ [][NextAnim]_vars

\* ---- claims on the generated functions

Looping == ~IsNone(files) /\ files[1].loop

\* C25: with loop set the chain plays until stop is called: while it plays a
\* frame is scheduled, and whenever a frame function runs the anchor exists,
\* so the particle function of the frame is run at the anchor in every
\* iteration.
C25_LoopKeepsAnchor ==
    Looping =>
        /\ apc = "playing" => sched # {}
        /\ \A k \in 1..Len(played) : played[k].anchor

\* what the functions do: the chain keeps running, the frames of the first
\* iteration find the anchor, and with more than one iteration the later ones
\* do not
FirstIterationOnly ==
    ~IsNone(files) =>
        /\ (files[1].loop /\ apc = "playing") => sched # {}
        /\ \A k \in 1..Len(played) :
               played[k].anchor <=> k <= Len(files[1].sorted_ticks)
        /\ ~files[1].loop => Len(played) <= Len(files[1].sorted_ticks)

====
